---- MODULE Spec2Model ----
(***************************************************************************)
(* pc_gb: the GameBoy emulator of src/GB.h, src/GBOpcodes.h, src/main.c.   *)
(*                                                                         *)
(* The machine is the GB struct (regs, IME, halted, mem, cart, bootRom)    *)
(* and the locals of StartGB's run loop (running, count).  One action per  *)
(* step of the loop: PollEvents, Execute (DoInstruction), Interrupts (the   *)
(* CheckInterrupt chain), Tick (the LY block).  The bus functions and the  *)
(* instruction decoder are operators translated from the C text.           *)
(*                                                                         *)
(* Bytes nobody has looked at yet are kept out of the state: mem (malloc,  *)
(* never cleared), cart and bootRom (file contents) are partial maps that  *)
(* hold the bytes written or read so far.  A read of a byte not yet in the *)
(* map picks its value and records it, so every later read agrees.         *)
(***************************************************************************)
EXTENDS Integers, Sequences, FiniteSets, TLC

VARIABLES
    regs,       \* gb->regs[8]: BC, DE, HL, SP, PC, pad, pad, AF
    IME,        \* gb->IME
    halted,     \* gb->halted
    mem,        \* gb->mem[0x8000], index = address - 0x8000 (bytes known so far)
    cart,       \* gb->cart[] (bytes known so far)
    bootRom,    \* gb->bootRom[] (bytes known so far)
    cartSize,   \* gb->cartSize
    st,         \* "ok", or how the process died: "assert" (assert(false)), "ub"
    phase,      \* position in main/StartGB
    running,    \* StartGB's local 'running'
    quit,       \* history: the SDL_PollEvent loop of this iteration saw SDL_QUIT
    count,      \* StartGB's local 'count'
    opcode,     \* DoInstruction's local 'opcode' of the last instruction (-1: none yet)
    instrPC,    \* DoInstruction's local 'instrPC' of the last instruction
    executed,   \* history: the instructions executed, each with the registers around it
    vector,     \* history: the vector CallInterrupt was last called with in this iteration (-1: none)
    frames,     \* history: number of SimpleRender calls
    presented,  \* history: the last Tick called SimpleRender (line 1756)
    busLog,     \* history of the bus harness: the write and read calls made
    romOps,     \* exploration: the values of a ROM byte first read as an opcode
    budget,     \* exploration: loop iterations still to explore
    loaded,     \* history: the outcome of StartGB's two LoadRom calls
    exitCode    \* the exit status of the process (-1: still running)

vars == <<regs, IME, halted, mem, cart, bootRom, cartSize, st, phase, running,
          quit, count, opcode, instrPC, executed, vector, frames, presented, busLog,
          romOps, budget, loaded, exitCode>>

-----------------------------------------------------------------------------
(* Bounds of the exploration.                                              *)

\* Outer-loop iterations explored from an initial state.
MaxIter == 2
\* Bus calls explored by the bus harness.
MaxBus == 3

Byte == 0..255

-----------------------------------------------------------------------------
(* Fixed-width arithmetic of the C types.                                  *)

U8(x)  == x % 256
U16(x) == x % 65536

RECURSIVE BitsAnd(_, _, _)
BitsAnd(a, b, n) ==
    IF n = 0 THEN 0
    ELSE (a % 2) * (b % 2) + 2 * BitsAnd(a \div 2, b \div 2, n - 1)

RECURSIVE BitsOr(_, _, _)
BitsOr(a, b, n) ==
    IF n = 0 THEN 0
    ELSE (IF (a % 2) + (b % 2) > 0 THEN 1 ELSE 0) + 2 * BitsOr(a \div 2, b \div 2, n - 1)

RECURSIVE BitsXor(_, _, _)
BitsXor(a, b, n) ==
    IF n = 0 THEN 0
    ELSE ((a + b) % 2) + 2 * BitsXor(a \div 2, b \div 2, n - 1)

\* a & b, a | b, a ^ b on values below 2^16
And(a, b) == BitsAnd(a, b, 16)
Or(a, b)  == BitsOr(a, b, 16)
Xor(a, b) == BitsXor(a, b, 16)

\* ~m of an 8-bit mask inside a 16-bit or 8-bit '&=' (the bits above bit 7 stay)
ClearBits(x, m) == x - And(x, m)

Shl(x, n) == x * (2 ^ n)
Shr(x, n) == x \div (2 ^ n)

BoolInt(b) == IF b THEN 1 ELSE 0

-----------------------------------------------------------------------------
(* Register and flag numbers, interrupt masks (src/GBOpcodes.h).           *)

REG_BC == 0
REG_DE == 1
REG_HL == 2
REG_SP == 3
REG_PC == 4
REG_AF == 7

REG_A == 7
REG_C == 1

FLAG_NZ == 0
FLAG_Z  == 1
FLAG_NC == 2
FLAG_C  == 3
FLAG_N  == 4
FLAG_H  == 5

VBLANK_MASK   == 1
LCD_STAT_MASK == 2
TIMER_MASK    == 4
SERIAL_MASK   == 8
JOYPAD_MASK   == 16

CART_CART_TYPE == 327      \* 0x147

\* The CART_TYPE_* values of WriteMem's switch: their #defines are not in the
\* source tree; the values are the header bytes the specification gives.
CART_TYPE_ROM_ONLY         == 0
CART_TYPE_MBC1             == 1
CART_TYPE_MBC1_RAM         == 2
CART_TYPE_MBC1_RAM_BATTERY == 3
CART_TYPE_MBC2             == 5
CART_TYPE_MBC2_BATTERY     == 6

\* Addresses used by name
MEM_BASE  == 32768     \* 0x8000: gb->mem[addr - 0x8000]
ADDR_IF   == 65295     \* 0xFF0F
ADDR_LY   == 65348     \* 0xFF44
ADDR_BOOT == 65360     \* 0xFF50
ADDR_IE   == 65535     \* 0xFFFF
BANK_IDX  == 8192      \* gb->mem[0x2000], the byte ReadMem takes the bank from

-----------------------------------------------------------------------------
(* The machine as one value, and the partial byte maps.                    *)

GB == [regs |-> regs, IME |-> IME, halted |-> halted, mem |-> mem,
       cart |-> cart, bootRom |-> bootRom, cartSize |-> cartSize, st |-> st]

\* The values a read of f[i] can return: the byte if known, else any of S.
Peek(f, i, S) == IF i \in DOMAIN f THEN {f[i]} ELSE S

\* f after a read of f[i] returned v
Learn(f, i, v) == IF i \in DOMAIN f THEN f ELSE (i :> v) @@ f

\* f after f[i] = v
Store(f, i, v) == (i :> v) @@ f

\* Composition of steps that can have several outcomes: M is a set of
\* <<value, machine>> pairs, F maps each to a set of results.
Bind(M, F(_, _)) == UNION { F(p[1], p[2]) : p \in M }

\* Values of never-written bytes of gb->mem (malloc'ed, not cleared), by index:
\* a few values per byte, those the code compares against.
UninitMem(i) ==
    CASE i = ADDR_BOOT - MEM_BASE -> {0, 1}
      [] i = ADDR_LY - MEM_BASE   -> {143, 153}
      [] i = ADDR_IF - MEM_BASE   -> {0, 1}
      [] i = BANK_IDX             -> {0, 2}
      [] OTHER                    -> {0, 90}

\* Values of the bytes of the ROM files read as data
RomData == {0, 90}


\* Values of the cartridge-type byte cart[0x147]
CartTypes == {CART_TYPE_ROM_ONLY, CART_TYPE_MBC1, 27}

\* File sizes of the cartridge image (32 KiB, 64 KiB)
CartSizes == {32768, 65536}

Dead(g) == g.st # "ok"

-----------------------------------------------------------------------------
(* The bus: ReadMem, WriteMem* (src/GB.h 232-366).                         *)

\* ReadMem's third and fourth branch: the cart index behind addr < 0x8000
CartIndex(g, addr) ==
    IF addr >= 16384 /\ addr <= 32767
    THEN { <<"cart", (addr + ((b % 32) - 1) * 16384) % g.cartSize,
             [g EXCEPT !.mem = Learn(@, BANK_IDX, b)]>> :
           b \in Peek(g.mem, BANK_IDX, UninitMem(BANK_IDX)) }
    ELSE { <<"cart", addr, g>> }

\* Which array and index ReadMem(addr) returns: <<array, index, machine>>, the
\* machine having read what the branch conditions read.
ReadSource(g, addr) ==
    IF addr >= MEM_BASE THEN { <<"mem", addr - MEM_BASE, g>> }
    ELSE IF addr <= 255
    THEN UNION { LET g1 == [g EXCEPT !.mem = Learn(@, ADDR_BOOT - MEM_BASE, l)]
                 IN  IF l = 0 THEN { <<"bootRom", addr % 256, g1>> }
                     ELSE CartIndex(g1, addr) :
                 l \in Peek(g.mem, ADDR_BOOT - MEM_BASE, UninitMem(ADDR_BOOT - MEM_BASE)) }
    ELSE CartIndex(g, addr)

\* ReadMem(gb, addr): the set of <<byte, machine>>.  S: the values of a ROM
\* byte not read before.
ReadMem(g, addr, S) ==
    IF Dead(g) THEN { <<0, g>> }
    ELSE UNION {
        LET i == r[2]
            h == r[3]
        IN  CASE r[1] = "mem" ->
                   { <<v, [h EXCEPT !.mem = Learn(@, i, v)]>> : v \in Peek(h.mem, i, UninitMem(i)) }
              [] r[1] = "bootRom" ->
                   { <<v, [h EXCEPT !.bootRom = Learn(@, i, v)]>> : v \in Peek(h.bootRom, i, S) }
              [] r[1] = "cart" ->
                   { <<v, [h EXCEPT !.cart = Learn(@, i, v)]>> : v \in Peek(h.cart, i, S) }
        : r \in ReadSource(g, addr) }

\* WriteMemRomOnly with the addr >= 0x8000 test lost: a write below it lands
\* in the ROM image.
WriteMemRomOnlyNoGuard(g, addr, val) ==
    IF addr >= MEM_BASE
    THEN IF addr = ADDR_LY
         THEN [g EXCEPT !.mem = Store(@, addr - MEM_BASE, 0)]
         ELSE [g EXCEPT !.mem = Store(@, addr - MEM_BASE, val)]
    ELSE [g EXCEPT !.cart = Store(@, addr, val)]

\* WriteMemRomOnly with the addr == 0xFF44 test lost
WriteMemRomOnlyPlain(g, addr, val) ==
    IF addr >= MEM_BASE
    THEN [g EXCEPT !.mem = Store(@, addr - MEM_BASE, val)]
    ELSE g

WriteMemRomOnly(g, addr, val) ==
    IF addr >= MEM_BASE
    THEN IF addr = ADDR_LY
         THEN [g EXCEPT !.mem = Store(@, addr - MEM_BASE, 0)]
         ELSE [g EXCEPT !.mem = Store(@, addr - MEM_BASE, val)]
    ELSE g

\* printf("Not Implemented!\n"); assert(false);
WriteMemMBC1(g, addr, val)       == [g EXCEPT !.st = "assert"]
WriteMemMBC1Ram(g, addr, val)    == [g EXCEPT !.st = "assert"]
WriteMemMBC1RamBat(g, addr, val) == [g EXCEPT !.st = "assert"]
WriteMemMBC2(g, addr, val)       == [g EXCEPT !.st = "assert"]
WriteMemMBC2Bat(g, addr, val)    == [g EXCEPT !.st = "assert"]

\* WriteMem's switch on gb->cart[CART_CART_TYPE] = t
WriteMemSwitch(g, t, addr, val) ==
    CASE t = CART_TYPE_ROM_ONLY         -> WriteMemRomOnly(g, addr, val)
      [] t = CART_TYPE_MBC1             -> WriteMemMBC1(g, addr, val)
      [] t = CART_TYPE_MBC1_RAM         -> WriteMemMBC1Ram(g, addr, val)
      [] t = CART_TYPE_MBC1_RAM_BATTERY -> WriteMemMBC1RamBat(g, addr, val)
      [] t = CART_TYPE_MBC2             -> WriteMemMBC2(g, addr, val)
      [] t = CART_TYPE_MBC2_BATTERY     -> WriteMemMBC2Bat(g, addr, val)
      [] OTHER                          -> g

\* WriteMem(gb, addr, val): the set of <<0, machine>>
WriteMem(g, addr, val) ==
    IF Dead(g) THEN { <<0, g>> }
    ELSE { <<0, WriteMemSwitch([g EXCEPT !.cart = Learn(@, CART_CART_TYPE, t)], t, addr, val)>> :
           t \in Peek(g.cart, CART_CART_TYPE, CartTypes) }

-----------------------------------------------------------------------------
(* Registers, flags, stack, interrupts (src/GB.h 522-755).                 *)

\* The bytes an instruction fetch can find in ROM: the opcode byte and the
\* bytes after it.
Opcodes == {0, 33, 62, 118, 193, 197, 201, 205, 251}
Operands == {0, 254}

SetReg(g, i, v) == IF Dead(g) THEN g ELSE [g EXCEPT !.regs[i] = v]

FetchByte(g, S) ==
    LET g1 == SetReg(g, REG_PC, U16(g.regs[REG_PC] + 1))
    IN  ReadMem(g1, U16(g1.regs[REG_PC] - 1 + 65536), S)

\* FetchByte(gb) | (FetchByte(gb) << 8): C leaves the order of the two calls
\* to the compiler, so the byte fetched first is the low or the high one.
FetchWord(g) ==
    Bind(FetchByte(g, Operands), LAMBDA b1, g1:
    Bind(FetchByte(g1, Operands), LAMBDA b2, g2:
        { <<b1 + 256 * b2, g2>>, <<b2 + 256 * b1, g2>> }))

\* Set8Reg with REG_A handled like the other odd register numbers: the value
\* goes to the low byte of regs[7]
Set8RegOddA(g, reg, val) ==
    IF Dead(g) THEN g
    ELSE IF ~(reg # 6 /\ reg <= 7) THEN [g EXCEPT !.st = "assert"]
    ELSE LET index == IF reg = REG_A THEN 7 ELSE reg \div 2
         IN  IF reg % 2 = 0
             THEN [g EXCEPT !.regs[index] = And(@, 255) + Shl(val, 8)]
             ELSE [g EXCEPT !.regs[index] = And(@, 65280) + val]

Set8Reg(g, reg, val) ==
    IF Dead(g) THEN g
    ELSE IF ~(reg # 6 /\ reg <= 7) THEN [g EXCEPT !.st = "assert"]
    ELSE LET index == IF reg = REG_A THEN 7 ELSE reg \div 2
         IN  IF reg % 2 = 0 \/ reg = REG_A
             THEN [g EXCEPT !.regs[index] = And(@, 255) + Shl(val, 8)]
             ELSE [g EXCEPT !.regs[index] = And(@, 65280) + val]

\* Get8Reg's assert(reg != 6 && reg <= 7)
Get8RegAssert(g, reg) ==
    IF ~Dead(g) /\ ~(reg # 6 /\ reg <= 7) THEN [g EXCEPT !.st = "assert"] ELSE g

\* Get8Reg's value
Get8Reg(g, reg) ==
    IF ~(reg # 6 /\ reg <= 7) THEN 0
    ELSE LET index == IF reg = REG_A THEN 7 ELSE reg \div 2
             val   == g.regs[index]
         IN  IF reg % 2 = 0 \/ reg = REG_A THEN And(Shr(val, 8), 255) ELSE And(val, 255)

SetFlag(g, flag, val) ==
    IF Dead(g) THEN g
    ELSE IF flag \notin {FLAG_Z, FLAG_C, FLAG_N, FLAG_H} THEN [g EXCEPT !.st = "assert"]
    ELSE LET mask == CASE flag = FLAG_Z -> Shl(1, 7)
                       [] flag = FLAG_C -> Shl(1, 4)
                       [] flag = FLAG_N -> Shl(1, 6)
                       [] flag = FLAG_H -> Shl(1, 5)
         IN  IF val > 0
             THEN [g EXCEPT !.regs[REG_AF] = Or(@, mask)]
             ELSE [g EXCEPT !.regs[REG_AF] = ClearBits(@, mask)]

\* CheckFlag(gb, flag): <<result, machine>>
CheckFlag(g, flag) ==
    CASE flag = FLAG_NZ -> <<And(g.regs[REG_AF], 128) = 0, g>>
      [] flag = FLAG_Z  -> <<And(g.regs[REG_AF], 128) > 0, g>>
      [] flag = FLAG_NC -> <<And(g.regs[REG_AF], 8) = 0, g>>
      [] flag = FLAG_C  -> <<And(g.regs[REG_AF], 8) >= 0, g>>
      [] OTHER          -> <<FALSE, IF Dead(g) THEN g ELSE [g EXCEPT !.st = "assert"]>>

\* CheckInterrupt with the gb->IME test lost
CheckInterruptNoIME(g, mask) ==
    Bind(ReadMem(g, ADDR_IE, RomData), LAMBDA ienable, g1:
    Bind(ReadMem(g1, ADDR_IF, RomData), LAMBDA iflag, g2:
        IF And(ienable, mask) > 0 /\ And(iflag, mask) > 0
        THEN { <<TRUE, p[2]>> : p \in WriteMem(g2, ADDR_IF, ClearBits(iflag, mask)) }
        ELSE { <<FALSE, g2>> }))

\* CheckInterrupt(gb, mask): the set of <<result, machine>>
CheckInterrupt(g, mask) ==
    Bind(ReadMem(g, ADDR_IE, RomData), LAMBDA ienable, g1:
    Bind(ReadMem(g1, ADDR_IF, RomData), LAMBDA iflag, g2:
        IF g2.IME /\ And(ienable, mask) > 0 /\ And(iflag, mask) > 0
        THEN { <<TRUE, p[2]>> : p \in WriteMem(g2, ADDR_IF, ClearBits(iflag, mask)) }
        ELSE { <<FALSE, g2>> }))

Push16(g, val) ==
    LET g1 == SetReg(g, REG_SP, U16(g.regs[REG_SP] - 2 + 65536))
    IN  Bind(WriteMem(g1, U16(g1.regs[REG_SP] + 1), Shr(And(val, 65280), 8)), LAMBDA x, g2:
             WriteMem(g2, U16(g2.regs[REG_SP] + 2), And(val, 255)))

CallInterrupt(g, vec) ==
    Bind(Push16(g, g.regs[REG_PC]), LAMBDA x, g1:
        { <<vec, IF Dead(g1) THEN g1
                 ELSE [g1 EXCEPT !.regs[REG_PC] = vec, !.halted = FALSE]>> })

\* Pop16 as the documented post-increment pop: the low byte from the old SP,
\* the high byte from the address above it.
Pop16PostIncrement(g) ==
    LET g1 == SetReg(g, REG_SP, U16(g.regs[REG_SP] + 2))
    IN  Bind(ReadMem(g1, U16(g1.regs[REG_SP] - 2 + 65536), RomData), LAMBDA lo, g2:
        Bind(ReadMem(g2, U16(g2.regs[REG_SP] - 1 + 65536), RomData), LAMBDA hi, g3:
            { <<Or(lo, Shl(hi, 8)), g3>> }))

Pop16(g) ==
    LET g1 == SetReg(g, REG_SP, U16(g.regs[REG_SP] + 2))
    IN  Bind(ReadMem(g1, g1.regs[REG_SP], RomData), LAMBDA lo, g2:
        Bind(ReadMem(g2, U16(g2.regs[REG_SP] - 1 + 65536), RomData), LAMBDA hi, g3:
            { <<Or(lo, Shl(hi, 8)), g3>> }))

-----------------------------------------------------------------------------
(* The decode macros (src/GB.h 38-70).                                     *)

Field3(op, shift) == And(Shr(op, shift), 7)

instr_ld_r_r(op, base, shift) ==
    /\ And(op, base) = base
    /\ Field3(op, shift) <= 7 /\ Field3(op, shift) # 6
    /\ And(op, 7) <= 7 /\ And(op, 7) # 6

instr_bit(op) ==
    /\ And(op, 64) = 64
    /\ Field3(op, 3) >= 8 /\ Field3(op, 3) < 15
    /\ And(op, 7) <= 7 /\ And(op, 7) # 6

instr_res_bit(op) ==
    /\ And(op, 0) = 128
    /\ Field3(op, 3) >= 8 /\ Field3(op, 3) < 15
    /\ And(op, 7) <= 7 /\ And(op, 7) # 6

instr_rst(op) == And(op, 199) = 199 /\ And(op, 7) <= 7

\* instr_left_r with the '!= 6' test of the register field lost
instr_left_rAnyField(op, base, shift) ==
    And(op, base) = base /\ Field3(op, shift) <= 7

instr_left_r(op, base, shift) ==
    And(op, base) = base /\ Field3(op, shift) <= 7 /\ Field3(op, shift) # 6

instr_left_f(op, base, shift) ==
    And(op, base) = base /\ And(Shr(op, shift), 3) <= 3

instr_right_r(op, base) ==
    And(op, base) = base /\ And(op, 7) <= 7 /\ And(op, 7) # 6

-----------------------------------------------------------------------------
(* Instruction bodies of DoInstruction (src/GB.h 876-1619).  Each is the   *)
(* set of <<TRUE, machine>> the body can end in.                           *)

Unit(g) == { <<TRUE, g>> }
Then(M) == { <<TRUE, p[2]>> : p \in M }

A8(g) == Get8Reg(g, REG_A)
HL(g) == g.regs[REG_HL]
AF(g) == g.regs[REG_AF]

I_nop(g, op) == Unit(g)

I_ld_nn_sp(g, op) ==
    Bind(FetchWord(g), LAMBDA w, g1:
        LET addr == U8(w)
        IN  Bind(WriteMem(g1, addr, Shr(g1.regs[REG_SP], 8)), LAMBDA x, g2:
                Then(WriteMem(g2, addr + 1, And(g2.regs[REG_SP], 255)))))

I_ld_r_r(g, op) ==
    LET regDst == And(Shr(op, 3), 7)
        regSrc == And(op, 7)
    IN  Unit(Set8Reg(Get8RegAssert(g, regSrc), regDst, Get8Reg(g, regSrc)))

I_ld_r_n(g, op) ==
    LET regDst == And(Shr(op, 3), 7)
    IN  Bind(FetchByte(g, Operands), LAMBDA val, g1: Unit(Set8Reg(g1, regDst, val)))

I_ld_de_a(g, op) == Then(WriteMem(g, g.regs[REG_DE], A8(g)))

I_ldh_a_n(g, op) ==
    Bind(FetchByte(g, Operands), LAMBDA offset, g1:
    Bind(ReadMem(g1, 65280 + offset, RomData), LAMBDA v, g2:
        Unit(Set8Reg(g2, REG_A, v))))

I_ldh_n_a(g, op) ==
    Bind(FetchByte(g, Operands), LAMBDA offset, g1:
        Then(WriteMem(g1, 65280 + offset, A8(g1))))

I_ldh_c_a(g, op) == Then(WriteMem(g, 65280 + Get8Reg(g, REG_C), A8(g)))

I_ldi_a_hl(g, op) ==
    Bind(ReadMem(g, HL(g), RomData), LAMBDA val, g1:
        LET g2 == Set8Reg(g1, REG_A, val)
        IN  Unit(SetReg(g2, REG_HL, U16(HL(g2) + 1))))

I_ldi_hl_a(g, op) ==
    Bind(WriteMem(g, HL(g), A8(g)), LAMBDA x, g1:
        Unit(SetReg(g1, REG_HL, U16(HL(g1) + 1))))

I_ldd_hl_a(g, op) ==
    Bind(WriteMem(g, HL(g), A8(g)), LAMBDA x, g1:
        Unit(SetReg(g1, REG_HL, U16(HL(g1) - 1 + 65536))))

I_ld_r_hl(g, op) ==
    LET reg == And(Shr(op, 3), 7)
    IN  Bind(ReadMem(g, HL(g), RomData), LAMBDA val, g1: Unit(Set8Reg(g1, reg, val)))

I_ld_hl_r(g, op) ==
    LET reg == And(op, 7)
    IN  Then(WriteMem(Get8RegAssert(g, reg), HL(g), Get8Reg(g, reg)))

I_ld_hl_n(g, op) ==
    Bind(FetchByte(g, Operands), LAMBDA val, g1: Then(WriteMem(g1, HL(g1), val)))

I_ld_a_bc(g, op) ==
    Bind(ReadMem(g, g.regs[REG_BC], RomData), LAMBDA val, g1: Unit(Set8Reg(g1, REG_A, val)))

I_ld_a_de(g, op) ==
    Bind(ReadMem(g, g.regs[REG_DE], RomData), LAMBDA val, g1: Unit(Set8Reg(g1, REG_A, val)))

I_ld_a_nn(g, op) ==
    Bind(FetchWord(g), LAMBDA w, g1:
    Bind(ReadMem(g1, U8(w), RomData), LAMBDA val, g2: Unit(Set8Reg(g2, REG_A, val))))

I_ld_bc_a(g, op) == Then(WriteMem(g, g.regs[REG_BC], A8(g)))

I_ld_nn_a(g, op) ==
    Bind(FetchWord(g), LAMBDA addr, g1: Then(WriteMem(g1, addr, A8(g1))))

\* The flag block of add/adc and the store to A: val is the uint8_t result
AddTail(g, val) ==
    LET g1 == SetFlag(g, FLAG_Z, BoolInt(val = 0))
        g2 == SetFlag(g1, FLAG_C, BoolInt(val < A8(g1)))
        g3 == SetFlag(g2, FLAG_N, 0)
        g4 == SetFlag(g3, FLAG_H, BoolInt(And(val, 15) < And(A8(g3), 15)))
    IN  Set8Reg(g4, REG_A, val)

\* The flag block of sub/sbc/cp
SubFlags(g, val) ==
    LET g1 == SetFlag(g, FLAG_Z, BoolInt(val = 0))
        g2 == SetFlag(g1, FLAG_C, BoolInt(val > A8(g1)))
        g3 == SetFlag(g2, FLAG_N, 1)
    IN  SetFlag(g3, FLAG_H, BoolInt(And(val, 15) > And(A8(g3), 15)))

\* The flag block of and/or/xor: Z from val, C = 0, N = 0, H = h
LogicFlags(g, val, h) ==
    LET g1 == SetFlag(g, FLAG_Z, BoolInt(val = 0))
        g2 == SetFlag(g1, FLAG_C, 0)
        g3 == SetFlag(g2, FLAG_N, 0)
    IN  SetFlag(g3, FLAG_H, h)

\* (gb->regs[REG_AF] & 0x8 >> 3): '>>' binds tighter than '&'
CarryIn(g) == And(AF(g), Shr(8, 3))

I_add_a_r(g, op) ==
    LET reg == And(op, 7)
        h   == Get8RegAssert(g, reg)
    IN  Unit(AddTail(h, U8(A8(h) + Get8Reg(h, reg))))

I_add_a_n(g, op) ==
    Bind(FetchByte(g, Operands), LAMBDA val, g1: Unit(AddTail(g1, U8(A8(g1) + val))))

I_adc_a_r(g, op) ==
    LET reg == And(op, 7)
        h   == Get8RegAssert(g, reg)
    IN  Unit(AddTail(h, U8(A8(h) + Get8Reg(h, reg) + CarryIn(h))))

I_add_a_hl(g, op) ==
    Bind(ReadMem(g, HL(g), RomData), LAMBDA val, g1: Unit(AddTail(g1, U8(A8(g1) + val))))

I_adc_a_hl(g, op) ==
    Bind(ReadMem(g, HL(g), RomData), LAMBDA val, g1:
        Unit(AddTail(g1, U8(A8(g1) + val + CarryIn(g1)))))

I_sub_a_r(g, op) ==
    LET reg == And(op, 7)
        h   == Get8RegAssert(g, reg)
        val == U8(A8(h) - Get8Reg(h, reg) + 256)
    IN  Unit(Set8Reg(SubFlags(h, val), REG_A, val))

I_sub_a_n(g, op) ==
    Bind(FetchByte(g, Operands), LAMBDA val, g1:
        LET newVal == U8(A8(g1) - val + 256)
        IN  Unit(Set8Reg(SubFlags(g1, newVal), REG_A, newVal)))

I_sbc_a_r(g, op) ==
    LET reg == And(op, 7)
        h   == Get8RegAssert(g, reg)
        val == U8(A8(h) - Get8Reg(h, reg) - CarryIn(h) + 65536)
    IN  Unit(Set8Reg(SubFlags(h, val), REG_A, val))

I_sbc_a_hl(g, op) ==
    Bind(ReadMem(g, HL(g), RomData), LAMBDA m, g1:
        LET val == U8(A8(g1) - m - CarryIn(g1) + 65536)
        IN  Unit(Set8Reg(SubFlags(g1, val), REG_A, val)))

I_and_a_r(g, op) ==
    LET reg == And(op, 7)
        h   == Get8RegAssert(g, reg)
        val == And(A8(h), Get8Reg(h, reg))
    IN  Unit(LogicFlags(Set8Reg(h, REG_A, val), val, 1))

I_and_a_n(g, op) ==
    Bind(FetchByte(g, Operands), LAMBDA val, g1:
        LET newVal == And(A8(g1), val)
        IN  Unit(LogicFlags(Set8Reg(g1, REG_A, newVal), newVal, 1)))

I_or_a_n(g, op) ==
    Bind(FetchByte(g, Operands), LAMBDA val, g1:
        LET newVal == Or(A8(g1), val)
        IN  Unit(LogicFlags(Set8Reg(g1, REG_A, newVal), newVal, 0)))

I_or_a_hl(g, op) ==
    Bind(ReadMem(g, HL(g), RomData), LAMBDA m, g1:
        LET newVal == Or(A8(g1), m)
        IN  Unit(LogicFlags(Set8Reg(g1, REG_A, newVal), newVal, 0)))

I_xor_a_r(g, op) ==
    LET reg == And(op, 7)
        h   == Get8RegAssert(g, reg)
    IN  Unit(LogicFlags(h, Xor(A8(h), Get8Reg(h, reg)), 0))

I_xor_a_hl(g, op) ==
    Bind(ReadMem(g, HL(g), RomData), LAMBDA m, g1: Unit(LogicFlags(g1, Xor(A8(g1), m), 0)))

I_or_a_r(g, op) ==
    LET reg == And(op, 7)
        h   == Get8RegAssert(g, reg)
        val == Or(A8(h), Get8Reg(h, reg))
    IN  Unit(LogicFlags(Set8Reg(h, REG_A, val), val, 0))

I_cp_a_r(g, op) ==
    LET reg == And(op, 7)
        h   == Get8RegAssert(g, reg)
    IN  Unit(SubFlags(h, U8(A8(h) - Get8Reg(h, reg) + 256)))

I_cp_a_n(g, op) ==
    Bind(FetchByte(g, Operands), LAMBDA val, g1: Unit(SubFlags(g1, U8(A8(g1) - val + 256))))

I_cp_a_hl(g, op) ==
    Bind(ReadMem(g, HL(g), RomData), LAMBDA val, g1: Unit(SubFlags(g1, U8(A8(g1) - val + 256))))

I_inc_r(g, op) ==
    LET reg == And(Shr(op, 3), 7)
        h   == Get8RegAssert(g, reg)
        val == U8(Get8Reg(h, reg) + 1)
        g1  == SetFlag(h, FLAG_Z, BoolInt(val = 0))
        g2  == SetFlag(g1, FLAG_N, 0)
        g3  == SetFlag(g2, FLAG_H, BoolInt(And(val, 15) < And(Get8Reg(g2, reg), 15)))
    IN  Unit(Set8Reg(g3, reg, val))

I_inc_hl(g, op) ==
    Bind(ReadMem(g, HL(g), RomData), LAMBDA data, g0:
        LET val == U8(data + 1)
            g1  == SetFlag(g0, FLAG_Z, BoolInt(val = 0))
            g2  == SetFlag(g1, FLAG_N, 0)
            g3  == SetFlag(g2, FLAG_H, BoolInt(And(val, 15) < And(data, 15)))
        IN  Then(WriteMem(g3, HL(g3), val)))

I_dec_r(g, op) ==
    LET reg == And(Shr(op, 3), 7)
        h   == Get8RegAssert(g, reg)
        val == U8(Get8Reg(h, reg) - 1 + 256)
        g1  == SetFlag(h, FLAG_Z, BoolInt(val = 0))
        g2  == SetFlag(g1, FLAG_N, 1)
        g3  == SetFlag(g2, FLAG_H, BoolInt(And(val, 15) > And(Get8Reg(g2, reg), 15)))
    IN  Unit(Set8Reg(g3, reg, val))

I_dec_hl(g, op) ==
    Bind(ReadMem(g, HL(g), RomData), LAMBDA data, g0:
        LET val == U8(data - 1 + 256)
            g1  == SetFlag(g0, FLAG_Z, BoolInt(val = 0))
            g2  == SetFlag(g1, FLAG_N, 1)
            g3  == SetFlag(g2, FLAG_H, BoolInt(And(val, 15) > And(data, 15)))
        IN  Then(WriteMem(g3, HL(g3), val)))

I_daa(g, op) ==
    LET val0 == A8(g)
        c1   == And(val0, 15) > 9 \/ And(AF(g), 32) > 0
        val1 == IF c1 THEN (IF And(AF(g), 16) > 0 THEN U8(val0 - 6 + 256) ELSE U8(val0 + 6))
                ELSE val0
        g1   == IF c1 THEN SetFlag(g, FLAG_C, 0) ELSE g
        c2   == And(val1, 240) > 9 \/ And(AF(g1), 32) > 0
        val2 == IF c2 THEN (IF And(AF(g1), 4) > 0 THEN U8(val1 - 96 + 256) ELSE U8(val1 + 96))
                ELSE val1
        g2   == IF c2 THEN SetFlag(g1, FLAG_C, 1) ELSE g1
        g3   == SetFlag(g2, FLAG_Z, BoolInt(val2 = 0))
        g4   == SetFlag(g3, FLAG_H, 0)
    IN  Unit(Set8Reg(g4, REG_A, val2))

I_cpl(g, op) ==
    LET g1 == Set8Reg(g, REG_A, Xor(A8(g), 255))
        g2 == SetFlag(g1, FLAG_N, 1)
    IN  Unit(SetFlag(g2, FLAG_H, 1))

\* gb->regs[reg] = val, reg an index computed from the opcode: regs has 8
\* elements, a store past them is outside the array.
SetRegIdx(g, reg, val) ==
    IF Dead(g) THEN g
    ELSE IF reg > 7 THEN [g EXCEPT !.st = "ub"]
    ELSE [g EXCEPT !.regs[reg] = val]

I_ld_rr_nn(g, op) ==
    LET reg == Shr(And(op, 240), 4)
    IN  Bind(FetchWord(g), LAMBDA val, g1: Unit(SetRegIdx(g1, reg, val)))

I_push_rr(g, op) ==
    LET reg == And(Shr(op, 4), 3)
    IN  Then(Push16(g, g.regs[reg]))

I_pop_rr(g, op) ==
    LET reg == And(Shr(op, 4), 3)
    IN  Bind(Pop16(g), LAMBDA val, g1: Unit(SetRegIdx(g1, reg, val)))

I_add_hl_rr(g, op) ==
    LET reg    == And(Shr(op, 4), 3)
        newVal == U8(HL(g) + g.regs[reg])
        g1     == SetFlag(g, FLAG_C, BoolInt(newVal < HL(g)))
        g2     == SetFlag(g1, FLAG_N, 0)
        g3     == SetFlag(g2, FLAG_H, BoolInt(And(newVal, 15) < And(HL(g2), 15)))
    IN  Unit(SetReg(g3, REG_HL, newVal))

I_inc_rr(g, op) ==
    LET reg == And(Shr(op, 4), 3)
    IN  Unit(SetRegIdx(g, reg, U16(g.regs[reg] + 1)))

I_dec_rr(g, op) ==
    LET reg == And(Shr(op, 4), 3)
    IN  Unit(SetRegIdx(g, reg, U16(g.regs[reg] - 1 + 65536)))

I_add_sp_dd(g, op) ==
    Bind(FetchByte(g, Operands), LAMBDA val, g0:
        LET sp     == g0.regs[REG_SP]
            neg    == And(val, 128) > 0
            mag    == IF neg THEN U8((255 - val) + 1) ELSE val
            newVal == IF neg THEN U8(U8(sp) - mag + 256) ELSE U8(U8(sp) + mag)
            g1     == IF neg
                      THEN SetFlag(g0, FLAG_H, BoolInt(And(newVal, 15) > And(sp, 15)))
                      ELSE SetFlag(g0, FLAG_H, BoolInt(And(newVal, 15) < And(sp, 15)))
            g2     == SetFlag(g1, FLAG_Z, 0)
            g3     == SetFlag(g2, FLAG_C, BoolInt(And(Xor(newVal, sp), 128) > 0))
            g4     == SetFlag(g3, FLAG_N, 0)
        IN  Unit(SetReg(g4, REG_SP, newVal)))

I_rlca(g, op) ==
    LET val0 == A8(g)
        tmp  == Shr(val0, 7)
        val  == Or(U8(Shl(val0, 1)), tmp)
        g1   == SetFlag(g, FLAG_Z, 0)
        g2   == SetFlag(g1, FLAG_C, BoolInt(And(A8(g1), 128) > 0))
        g3   == SetFlag(g2, FLAG_N, 0)
        g4   == SetFlag(g3, FLAG_H, 0)
    IN  Unit(Set8Reg(g4, REG_A, val))

I_rla(g, op) ==
    LET val == U8(Or(U8(Shl(A8(g), 1)), And(AF(g), 8)))
        g1  == SetFlag(g, FLAG_Z, 0)
        g2  == SetFlag(g1, FLAG_C, Shr(A8(g1), 7))
        g3  == SetFlag(g2, FLAG_N, 0)
        g4  == SetFlag(g3, FLAG_H, 0)
    IN  Unit(Set8Reg(g4, REG_A, val))

I_rra(g, op) ==
    LET val == U8(Or(Shr(A8(g), 1), Shl(And(AF(g), 8), 3)))
        g1  == SetFlag(g, FLAG_Z, 0)
        g2  == SetFlag(g1, FLAG_C, And(A8(g1), 1))
        g3  == SetFlag(g2, FLAG_N, 0)
        g4  == SetFlag(g3, FLAG_H, 0)
    IN  Unit(Set8Reg(g4, REG_A, val))

I_ccf(g, op) == Unit(SetFlag(g, FLAG_C, 0))

I_scf(g, op) == Unit(SetFlag(g, FLAG_C, 1))

I_halt(g, op) == Unit(IF Dead(g) THEN g ELSE [g EXCEPT !.halted = TRUE])

I_stop(g, op) == Then(FetchByte(g, Operands))

I_di(g, op) == Unit(IF Dead(g) THEN g ELSE [g EXCEPT !.IME = FALSE])

I_ei(g, op) == Unit(IF Dead(g) THEN g ELSE [g EXCEPT !.IME = TRUE])

I_jp_nn(g, op) ==
    Bind(FetchWord(g), LAMBDA addr, g1: Unit(SetReg(g1, REG_PC, U16(addr + 1))))

I_jp_hl(g, op) == Unit(SetReg(g, REG_PC, HL(g)))

I_jp_f_nn(g, op) ==
    Bind(FetchWord(g), LAMBDA w, g1:
        LET addr == U8(w)
            flag == And(Shr(op, 3), 3)
            c    == CheckFlag(g1, flag)
        IN  IF c[1] THEN Unit(SetReg(c[2], REG_PC, addr)) ELSE Unit(c[2]))

\* The offset block of jr with the sign test lost: PC += offset, the byte
\* taken as unsigned.
JumpRelUnsigned(g, offset) ==
    SetReg(g, REG_PC, U16(g.regs[REG_PC] + offset))

\* The signed-offset block of jr: PC -= (uint8_t)(~offset + 1), or PC += offset
JumpRel(g, offset) ==
    IF And(offset, 128) > 0
    THEN SetReg(g, REG_PC, U16(g.regs[REG_PC] - U8((255 - offset) + 1) + 65536))
    ELSE SetReg(g, REG_PC, U16(g.regs[REG_PC] + offset))

I_jr_f_dd(g, op) ==
    Bind(FetchByte(g, Operands), LAMBDA offset, g1:
        LET flag == And(Shr(op, 3), 3)
            c    == CheckFlag(g1, flag)
        IN  IF c[1] THEN Unit(JumpRel(c[2], offset)) ELSE Unit(c[2]))

I_jr_dd(g, op) ==
    Bind(FetchByte(g, Operands), LAMBDA offset, g1: Unit(JumpRel(g1, offset)))

I_call_nn(g, op) ==
    Bind(FetchWord(g), LAMBDA addr, g1:
    Bind(Push16(g1, g1.regs[REG_PC]), LAMBDA x, g2:
        Unit(SetReg(g2, REG_PC, addr))))

I_call_f_nn(g, op) ==
    LET flag == And(Shr(op, 3), 7)
    IN  Bind(FetchWord(g), LAMBDA addr, g1:
            LET c == CheckFlag(g1, flag)
            IN  IF c[1]
                THEN LET g2 == SetReg(c[2], REG_SP, U16(c[2].regs[REG_SP] - 2 + 65536))
                     IN  Bind(WriteMem(g2, g2.regs[REG_SP], U8(g2.regs[REG_PC])), LAMBDA x, g3:
                             Unit(SetReg(g3, REG_PC, addr)))
                ELSE Unit(c[2]))

I_ret(g, op) == Bind(Pop16(g), LAMBDA val, g1: Unit(SetReg(g1, REG_PC, val)))

I_ret_f(g, op) ==
    LET flag == And(Shr(op, 3), 7)
        c    == CheckFlag(g, flag)
    IN  IF c[1] THEN Bind(Pop16(c[2]), LAMBDA val, g1: Unit(SetReg(g1, REG_PC, val)))
        ELSE Unit(c[2])

I_reti(g, op) ==
    Bind(Pop16(g), LAMBDA val, g1:
        Unit(IF Dead(g1) THEN g1 ELSE [g1 EXCEPT !.regs[REG_PC] = val, !.IME = TRUE]))

I_rst(g, op) ==
    Bind(FetchByte(g, Operands), LAMBDA b, g1:
        LET val == And(Shr(b, 3), 7)
        IN  Bind(Push16(g1, g1.regs[REG_PC]), LAMBDA x, g2:
                Unit(SetReg(g2, REG_PC, val))))

\* DumpCPURegisters; printf("... Unknown instruction ..."); return false;
I_invalid(g, op) == { <<FALSE, g>> }

-----------------------------------------------------------------------------
(* DoCBInstruction (src/GB.h 757-864).                                     *)

CB_rl_r(g, op) ==
    LET reg == And(op, 7)
        h   == Get8RegAssert(g, reg)
        val == Or(U8(Shl(Get8Reg(h, reg), 1)), Shr(And(AF(h), 8), 4))
        g1  == SetFlag(h, FLAG_Z, BoolInt(val = 0))
        g2  == SetFlag(g1, FLAG_C, Shr(Get8Reg(g1, reg), 7))
    IN  Unit(Set8Reg(g2, reg, val))

CB_rr_r(g, op) ==
    LET reg == And(op, 7)
        h   == Get8RegAssert(g, reg)
        val == U8(Or(Shr(Get8Reg(h, reg), 1), Shl(And(AF(h), 8), 3)))
        g1  == SetFlag(h, FLAG_Z, BoolInt(val = 0))
        g2  == SetFlag(g1, FLAG_C, And(Get8Reg(g1, reg), 1))
    IN  Unit(Set8Reg(g2, reg, val))

CB_rr_hl(g, op) ==
    Bind(ReadMem(g, HL(g), RomData), LAMBDA m, g0:
        LET val == U8(Or(Shr(m, 1), Shl(And(AF(g0), 8), 3)))
            g1  == SetFlag(g0, FLAG_Z, BoolInt(val = 0))
        IN  Bind(ReadMem(g1, HL(g1), RomData), LAMBDA m2, g2:
                Then(WriteMem(SetFlag(g2, FLAG_C, And(m2, 1)), HL(g2), val))))

CB_sla_r(g, op) ==
    LET reg == And(op, 7)
        h   == Get8RegAssert(g, reg)
    IN  Unit(Set8Reg(h, reg, U8(Shl(Get8Reg(h, reg), 1))))

CB_swap_r(g, op) ==
    LET reg == And(op, 7)
        h   == Get8RegAssert(g, reg)
        val == Get8Reg(h, reg)
        lo  == And(val, 15)
    IN  Unit(Set8Reg(h, reg, U8(Or(Shr(val, 4), Shl(lo, 4)))))

CB_srl_r(g, op) ==
    LET reg == And(op, 7)
        h   == Get8RegAssert(g, reg)
    IN  Unit(Set8Reg(h, reg, Shr(Get8Reg(h, reg), 1)))

CB_bit_n_r(g, op) ==
    LET bit == Shr(op, 4)
        h   == Get8RegAssert(g, And(op, 7))
        reg == Get8Reg(h, And(op, 7))
        g1  == SetFlag(h, FLAG_Z, BoolInt(And(reg, Shl(1, bit)) = 0))
        g2  == SetFlag(g1, FLAG_N, 0)
    IN  Unit(SetFlag(g2, FLAG_H, 1))

CB_res_n_r(g, op) ==
    LET bit == Shr(op, 4)
        h   == Get8RegAssert(g, And(op, 7))
        reg == Get8Reg(h, And(op, 7))
    IN  Unit(Set8Reg(h, And(op, 7), U8(ClearBits(reg, Shl(1, bit)))))

\* DumpCPURegisters; printf("... Unknown CB-prefixed instruction ..."); return false;
CB_invalid(g, op) == { <<FALSE, g>> }

\* The else-if chain of DoCBInstruction: the name of the branch opcode op takes
DecodeCB(op) ==
    IF instr_right_r(op, 16) THEN "rl r"
    ELSE IF instr_right_r(op, 24) THEN "rr r"
    ELSE IF op = 30 THEN "rr (hl)"
    ELSE IF instr_right_r(op, 32) THEN "sla r"
    ELSE IF instr_right_r(op, 48) THEN "swap r"
    ELSE IF instr_right_r(op, 56) THEN "srl r"
    ELSE IF instr_bit(op) THEN "bit n,r"
    ELSE IF instr_res_bit(op) THEN "res n,r"
    ELSE "invalid"

\* Opcode bytes after the 0xCB prefix
CBOpcodes == {17, 30, 32, 64}

DoCBInstruction(g) ==
    Bind(FetchByte(g, CBOpcodes), LAMBDA op, g1:
        LET n == DecodeCB(op)
        IN  CASE n = "rl r"    -> CB_rl_r(g1, op)
              [] n = "rr r"    -> CB_rr_r(g1, op)
              [] n = "rr (hl)" -> CB_rr_hl(g1, op)
              [] n = "sla r"   -> CB_sla_r(g1, op)
              [] n = "swap r"  -> CB_swap_r(g1, op)
              [] n = "srl r"   -> CB_srl_r(g1, op)
              [] n = "bit n,r" -> CB_bit_n_r(g1, op)
              [] n = "res n,r" -> CB_res_n_r(g1, op)
              [] OTHER         -> CB_invalid(g1, op))

-----------------------------------------------------------------------------
(* DoInstruction (src/GB.h 866-1621).                                      *)

\* The else-if chain of DoInstruction: the branch opcode op takes
Decode(op) ==
    IF op = 0 THEN "nop"
    ELSE IF op = 8 THEN "ld_nn_sp"
    ELSE IF instr_ld_r_r(op, 64, 3) THEN "ld_r_r"
    ELSE IF instr_left_r(op, 6, 3) THEN "ld_r_n"
    ELSE IF op = 18 THEN "ld_de_a"
    ELSE IF op = 240 THEN "ldh_a_n"
    ELSE IF op = 224 THEN "ldh_n_a"
    ELSE IF op = 226 THEN "ldh_c_a"
    ELSE IF op = 42 THEN "ldi_a_hl"
    ELSE IF op = 34 THEN "ldi_hl_a"
    ELSE IF op = 50 THEN "ldd_hl_a"
    ELSE IF instr_left_r(op, 70, 3) THEN "ld_r_hl"
    ELSE IF instr_right_r(op, 112) THEN "ld_hl_r"
    ELSE IF op = 54 THEN "ld_hl_n"
    ELSE IF op = 10 THEN "ld_a_bc"
    ELSE IF op = 26 THEN "ld_a_de"
    ELSE IF op = 250 THEN "ld_a_nn"
    ELSE IF op = 2 THEN "ld_bc_a"
    ELSE IF op = 234 THEN "ld_nn_a"
    ELSE IF instr_right_r(op, 128) THEN "add_a_r"
    ELSE IF op = 198 THEN "add_a_n"
    ELSE IF instr_right_r(op, 136) THEN "adc_a_r"
    ELSE IF op = 134 THEN "add_a_hl"
    ELSE IF op = 142 THEN "adc_a_hl"
    ELSE IF instr_right_r(op, 144) THEN "sub_a_r"
    ELSE IF op = 214 THEN "sub_a_n"
    ELSE IF instr_right_r(op, 152) THEN "sbc_a_r"
    ELSE IF op = 158 THEN "sbc_a_hl"
    ELSE IF instr_right_r(op, 160) THEN "and_a_r"
    ELSE IF op = 230 THEN "and_a_n"
    ELSE IF op = 246 THEN "or_a_n"
    ELSE IF op = 182 THEN "or_a_hl"
    ELSE IF instr_right_r(op, 168) THEN "xor_a_r"
    ELSE IF op = 174 THEN "xor_a_hl"
    ELSE IF instr_right_r(op, 176) THEN "or_a_r"
    ELSE IF instr_right_r(op, 184) THEN "cp_a_r"
    ELSE IF op = 254 THEN "cp_a_n"
    ELSE IF op = 190 THEN "cp_a_hl"
    ELSE IF instr_left_r(op, 4, 3) THEN "inc_r"
    ELSE IF op = 52 THEN "inc_hl"
    ELSE IF instr_left_r(op, 5, 3) THEN "dec_r"
    ELSE IF op = 53 THEN "dec_hl"
    ELSE IF op = 39 THEN "daa"
    ELSE IF op = 47 THEN "cpl"
    ELSE IF instr_left_r(op, 1, 4) THEN "ld_rr_nn"
    ELSE IF instr_left_r(op, 197, 4) THEN "push_rr"
    ELSE IF instr_left_r(op, 193, 4) THEN "pop_rr"
    ELSE IF instr_left_r(op, 9, 4) THEN "add_hl_rr"
    ELSE IF instr_left_r(op, 3, 4) THEN "inc_rr"
    ELSE IF instr_left_r(op, 11, 4) THEN "dec_rr"
    ELSE IF op = 232 THEN "add_sp_dd"
    ELSE IF op = 7 THEN "rlca"
    ELSE IF op = 23 THEN "rla"
    ELSE IF op = 31 THEN "rra"
    ELSE IF op = 63 THEN "ccf"
    ELSE IF op = 55 THEN "scf"
    ELSE IF op = 118 THEN "halt"
    ELSE IF op = 16 THEN "stop"
    ELSE IF op = 243 THEN "di"
    ELSE IF op = 251 THEN "ei"
    ELSE IF op = 195 THEN "jp_nn"
    ELSE IF op = 233 THEN "jp_hl"
    ELSE IF instr_left_f(op, 194, 3) THEN "jp_f_nn"
    ELSE IF instr_left_f(op, 32, 3) THEN "jr_f_dd"
    ELSE IF op = 24 THEN "jr_dd"
    ELSE IF op = 205 THEN "call_nn"
    ELSE IF instr_left_r(op, 196, 3) THEN "call_f_nn"
    ELSE IF op = 201 THEN "ret"
    ELSE IF instr_left_r(op, 192, 3) THEN "ret_f"
    ELSE IF op = 217 THEN "reti"
    ELSE IF instr_rst(op) THEN "rst"
    ELSE "invalid"

\* The body of the branch named n
Exec(n, g, op) ==
    CASE n = "nop" -> I_nop(g, op)
      [] n = "ld_nn_sp" -> I_ld_nn_sp(g, op)
      [] n = "ld_r_r" -> I_ld_r_r(g, op)
      [] n = "ld_r_n" -> I_ld_r_n(g, op)
      [] n = "ld_de_a" -> I_ld_de_a(g, op)
      [] n = "ldh_a_n" -> I_ldh_a_n(g, op)
      [] n = "ldh_n_a" -> I_ldh_n_a(g, op)
      [] n = "ldh_c_a" -> I_ldh_c_a(g, op)
      [] n = "ldi_a_hl" -> I_ldi_a_hl(g, op)
      [] n = "ldi_hl_a" -> I_ldi_hl_a(g, op)
      [] n = "ldd_hl_a" -> I_ldd_hl_a(g, op)
      [] n = "ld_r_hl" -> I_ld_r_hl(g, op)
      [] n = "ld_hl_r" -> I_ld_hl_r(g, op)
      [] n = "ld_hl_n" -> I_ld_hl_n(g, op)
      [] n = "ld_a_bc" -> I_ld_a_bc(g, op)
      [] n = "ld_a_de" -> I_ld_a_de(g, op)
      [] n = "ld_a_nn" -> I_ld_a_nn(g, op)
      [] n = "ld_bc_a" -> I_ld_bc_a(g, op)
      [] n = "ld_nn_a" -> I_ld_nn_a(g, op)
      [] n = "add_a_r" -> I_add_a_r(g, op)
      [] n = "add_a_n" -> I_add_a_n(g, op)
      [] n = "adc_a_r" -> I_adc_a_r(g, op)
      [] n = "add_a_hl" -> I_add_a_hl(g, op)
      [] n = "adc_a_hl" -> I_adc_a_hl(g, op)
      [] n = "sub_a_r" -> I_sub_a_r(g, op)
      [] n = "sub_a_n" -> I_sub_a_n(g, op)
      [] n = "sbc_a_r" -> I_sbc_a_r(g, op)
      [] n = "sbc_a_hl" -> I_sbc_a_hl(g, op)
      [] n = "and_a_r" -> I_and_a_r(g, op)
      [] n = "and_a_n" -> I_and_a_n(g, op)
      [] n = "or_a_n" -> I_or_a_n(g, op)
      [] n = "or_a_hl" -> I_or_a_hl(g, op)
      [] n = "xor_a_r" -> I_xor_a_r(g, op)
      [] n = "xor_a_hl" -> I_xor_a_hl(g, op)
      [] n = "or_a_r" -> I_or_a_r(g, op)
      [] n = "cp_a_r" -> I_cp_a_r(g, op)
      [] n = "cp_a_n" -> I_cp_a_n(g, op)
      [] n = "cp_a_hl" -> I_cp_a_hl(g, op)
      [] n = "inc_r" -> I_inc_r(g, op)
      [] n = "inc_hl" -> I_inc_hl(g, op)
      [] n = "dec_r" -> I_dec_r(g, op)
      [] n = "dec_hl" -> I_dec_hl(g, op)
      [] n = "daa" -> I_daa(g, op)
      [] n = "cpl" -> I_cpl(g, op)
      [] n = "ld_rr_nn" -> I_ld_rr_nn(g, op)
      [] n = "push_rr" -> I_push_rr(g, op)
      [] n = "pop_rr" -> I_pop_rr(g, op)
      [] n = "add_hl_rr" -> I_add_hl_rr(g, op)
      [] n = "inc_rr" -> I_inc_rr(g, op)
      [] n = "dec_rr" -> I_dec_rr(g, op)
      [] n = "add_sp_dd" -> I_add_sp_dd(g, op)
      [] n = "rlca" -> I_rlca(g, op)
      [] n = "rla" -> I_rla(g, op)
      [] n = "rra" -> I_rra(g, op)
      [] n = "ccf" -> I_ccf(g, op)
      [] n = "scf" -> I_scf(g, op)
      [] n = "halt" -> I_halt(g, op)
      [] n = "stop" -> I_stop(g, op)
      [] n = "di" -> I_di(g, op)
      [] n = "ei" -> I_ei(g, op)
      [] n = "jp_nn" -> I_jp_nn(g, op)
      [] n = "jp_hl" -> I_jp_hl(g, op)
      [] n = "jp_f_nn" -> I_jp_f_nn(g, op)
      [] n = "jr_f_dd" -> I_jr_f_dd(g, op)
      [] n = "jr_dd" -> I_jr_dd(g, op)
      [] n = "call_nn" -> I_call_nn(g, op)
      [] n = "call_f_nn" -> I_call_f_nn(g, op)
      [] n = "ret" -> I_ret(g, op)
      [] n = "ret_f" -> I_ret_f(g, op)
      [] n = "reti" -> I_reti(g, op)
      [] n = "rst" -> I_rst(g, op)
      [] OTHER -> I_invalid(g, op)

\* DoInstruction with the bytes the LR35902 leaves unassigned sent to the
\* 'Unknown instruction' branch before the chain is tried.
DoInstructionRejectUnassigned(g, OPS) ==
    Bind(FetchByte(g, OPS), LAMBDA op, g1:
        { <<p[1], p[2], op>> :
          p \in (IF op = 203 THEN DoCBInstruction(g1)
                 ELSE IF op \in {211, 219, 221, 227, 228, 235, 236, 237, 244, 252, 253}
                      THEN I_invalid(g1, op)
                 ELSE Exec(Decode(op), g1, op)) })

\* DoInstruction(gb) with the opcode byte drawn from OPS when the ROM byte at
\* PC was not read before: the set of <<result, machine, opcode>>
DoInstruction(g, OPS) ==
    Bind(FetchByte(g, OPS), LAMBDA op, g1:
        { <<p[1], p[2], op>> :
          p \in (IF op = 203 THEN DoCBInstruction(g1) ELSE Exec(Decode(op), g1, op)) })

-----------------------------------------------------------------------------
(* StartGB (src/GB.h 1623-1765) and main (src/main.c).                     *)

\* The WriteMem calls of lines 1661-1691, in order
PowerUpWrites ==
    << <<65285, 0>>, <<65286, 0>>, <<65287, 0>>, <<65296, 128>>, <<65297, 191>>,
       <<65298, 243>>, <<65300, 191>>, <<65302, 63>>, <<65303, 0>>, <<65305, 191>>,
       <<65306, 127>>, <<65307, 255>>, <<65308, 159>>, <<65310, 191>>, <<65312, 255>>,
       <<65313, 0>>, <<65314, 0>>, <<65315, 191>>, <<65316, 119>>, <<65317, 243>>,
       <<65318, 241>>, <<65344, 145>>, <<65346, 0>>, <<65347, 0>>, <<65349, 0>>,
       <<65351, 252>>, <<65352, 255>>, <<65353, 255>>, <<65354, 0>>, <<65355, 0>>,
       <<65535, 0>> >>

RECURSIVE WriteAll(_, _, _)
WriteAll(G, ws, k) ==
    IF k > Len(ws) THEN G
    ELSE WriteAll(UNION { { p[2] : p \in WriteMem(g, ws[k][1], ws[k][2]) } : g \in G }, ws, k + 1)

\* StartGB from the loaded images to the first loop iteration: DumpRomInfo
\* reads the type byte, then the register snapshot and the power-up writes.
PowerOn(g, size) ==
    UNION { LET g1 == [g EXCEPT !.cartSize = size,
                                 !.cart = Learn(@, CART_CART_TYPE, t),
                                 !.regs = [i \in 0..7 |->
                                             CASE i = REG_BC -> 19
                                               [] i = REG_DE -> 216
                                               [] i = REG_HL -> 333
                                               [] i = REG_SP -> 65534
                                               [] i = REG_AF -> 0
                                               [] i = REG_PC -> 0
                                               [] OTHER -> @[i]],
                                 !.IME = FALSE,
                                 !.halted = FALSE]
            IN  WriteAll({g1}, PowerUpWrites, 1)
          : t \in Peek(g.cart, CART_CART_TYPE, CartTypes) }

\* The interrupt chain with the LCD STAT test before the VBlank test
ServiceInterruptsStatFirst(g) ==
    Bind(CheckInterrupt(g, LCD_STAT_MASK), LAMBDA b0, g0:
    IF b0 THEN CallInterrupt(g0, 72) ELSE
    Bind(CheckInterrupt(g0, VBLANK_MASK), LAMBDA b1, g1:
    IF b1 THEN CallInterrupt(g1, 64) ELSE
    Bind(CheckInterrupt(g1, TIMER_MASK), LAMBDA b2, g2:
    IF b2 THEN CallInterrupt(g2, 80) ELSE
    Bind(CheckInterrupt(g2, SERIAL_MASK), LAMBDA b3, g3:
    IF b3 THEN CallInterrupt(g3, 88) ELSE
    Bind(CheckInterrupt(g3, JOYPAD_MASK), LAMBDA b4, g4:
    IF b4 THEN CallInterrupt(g4, 96) ELSE { <<-1, g4>> })))))

\* The five CheckInterrupt/CallInterrupt branches of lines 1715-1734: the set
\* of <<vector called or -1, machine>>
ServiceInterrupts(g) ==
    Bind(CheckInterrupt(g, VBLANK_MASK), LAMBDA b0, g0:
    IF b0 THEN CallInterrupt(g0, 64) ELSE
    Bind(CheckInterrupt(g0, LCD_STAT_MASK), LAMBDA b1, g1:
    IF b1 THEN CallInterrupt(g1, 72) ELSE
    Bind(CheckInterrupt(g1, TIMER_MASK), LAMBDA b2, g2:
    IF b2 THEN CallInterrupt(g2, 80) ELSE
    Bind(CheckInterrupt(g2, SERIAL_MASK), LAMBDA b3, g3:
    IF b3 THEN CallInterrupt(g3, 88) ELSE
    Bind(CheckInterrupt(g3, JOYPAD_MASK), LAMBDA b4, g4:
    IF b4 THEN CallInterrupt(g4, 96) ELSE { <<-1, g4>> })))))

\* The LY block with 'LY >= 144' for 'LY == 144'
TickLYFrom144(g) ==
    Bind(ReadMem(g, ADDR_LY, RomData), LAMBDA ly0, g1:
        LET ly1 == U8(ly0 + 1)
            G2  == IF ly1 >= 144
                   THEN Bind(ReadMem(g1, ADDR_IF, RomData), LAMBDA val, h:
                            { q[2] : q \in WriteMem(h, ADDR_IF, Or(val, 1)) })
                   ELSE { g1 }
            ly2 == IF ly1 > 153 THEN 0 ELSE ly1
        IN  { IF Dead(g2) THEN g2 ELSE [g2 EXCEPT !.mem = Store(@, ADDR_LY - MEM_BASE, ly2)] : g2 \in G2 })

\* The LY block with 'LY > 154' for 'LY > 153'
TickLYWrapLate(g) ==
    Bind(ReadMem(g, ADDR_LY, RomData), LAMBDA ly0, g1:
        LET ly1 == U8(ly0 + 1)
            G2  == IF ly1 = 144
                   THEN Bind(ReadMem(g1, ADDR_IF, RomData), LAMBDA val, h:
                            { q[2] : q \in WriteMem(h, ADDR_IF, Or(val, 1)) })
                   ELSE { g1 }
            ly2 == IF ly1 > 154 THEN 0 ELSE ly1
        IN  { IF Dead(g2) THEN g2 ELSE [g2 EXCEPT !.mem = Store(@, ADDR_LY - MEM_BASE, ly2)] : g2 \in G2 })

\* Lines 1736-1759 without the render: the set of machines
TickLY(g) ==
    Bind(ReadMem(g, ADDR_LY, RomData), LAMBDA ly0, g1:
        LET ly1 == U8(ly0 + 1)
            G2  == IF ly1 = 144
                   THEN Bind(ReadMem(g1, ADDR_IF, RomData), LAMBDA val, h:
                            { q[2] : q \in WriteMem(h, ADDR_IF, Or(val, 1)) })
                   ELSE { g1 }
            ly2 == IF ly1 > 153 THEN 0 ELSE ly1
        IN  { IF Dead(g2) THEN g2 ELSE [g2 EXCEPT !.mem = Store(@, ADDR_LY - MEM_BASE, ly2)] : g2 \in G2 })

\* (count % 1024 * 8) == 0
RenderDue(c) == ((c % 1024) * 8) = 0

-----------------------------------------------------------------------------
(* The actions.                                                            *)

SetGB(g) ==
    /\ regs' = g.regs
    /\ IME' = g.IME
    /\ halted' = g.halted
    /\ mem' = g.mem
    /\ cart' = g.cart
    /\ bootRom' = g.bootRom
    /\ cartSize' = g.cartSize
    /\ st' = g.st

gbVars   == <<regs, IME, halted, mem, cart, bootRom, cartSize, st>>
histVars == <<opcode, instrPC, executed, vector, frames, presented, busLog>>
mainVars == <<loaded, exitCode>>

NoMap == [i \in {} |-> 0]

\* The GB struct after CreateGB: malloc'ed, nothing in it is set yet.
Created ==
    [regs |-> [i \in 0..7 |-> 0], IME |-> FALSE, halted |-> FALSE, mem |-> NoMap,
     cart |-> NoMap, bootRom |-> NoMap, cartSize |-> 0, st |-> "ok"]

\* The GB struct after the two LoadRom calls of StartGB, on a cartridge image
\* of type t and size n
Loaded(t, n) == [Created EXCEPT !.cart = (CART_CART_TYPE :> t), !.cartSize = n]

\* The machine at the top of a later loop iteration on a ROM_ONLY cartridge:
\* the power-on machine, then the registers and the I/O bytes as the
\* instructions and the ticks before have left them.
Running(pc, sp, hl, af, ie, iflag, ly) ==
    { [g EXCEPT !.regs[REG_PC] = pc, !.regs[REG_SP] = sp, !.regs[REG_HL] = hl,
                !.regs[REG_AF] = af,
                !.mem = (ADDR_BOOT - MEM_BASE :> 1) @@ (ADDR_IE - MEM_BASE :> ie)
                        @@ (ADDR_IF - MEM_BASE :> iflag) @@ (ADDR_LY - MEM_BASE :> ly) @@ @]
      : g \in PowerOn(Loaded(CART_TYPE_ROM_ONLY, 32768), 32768) }

\* The variables at a machine g, at position ph of the loop
Start(g, ph, ops, n) ==
    /\ regs = g.regs
    /\ IME = g.IME
    /\ halted = g.halted
    /\ mem = g.mem
    /\ cart = g.cart
    /\ bootRom = g.bootRom
    /\ cartSize = g.cartSize
    /\ st = g.st
    /\ phase = ph
    /\ running = (ph = "poll")
    /\ quit = FALSE
    /\ count = IF ph = "poll" THEN 1 ELSE 0
    /\ opcode = -1
    /\ instrPC = -1
    /\ executed = <<>>
    /\ vector = -1
    /\ frames = IF ph = "poll" THEN 1 ELSE 0
    /\ presented = FALSE
    /\ busLog = <<>>
    /\ romOps = ops
    /\ budget = n
    /\ loaded = IF ph \in {"start", "nogb"} THEN "none" ELSE "ok"
    /\ exitCode = -1

\* main calls StartGB on the struct CreateGB returned, or CreateGB has
\* returned NULL (no rendering context).
Init ==
    \/ Start(Created, "start", Opcodes, MaxIter)
    \/ Start(Created, "nogb", Opcodes, MaxIter)

\* StartGB up to 'while (running)': the two LoadRom calls, the register
\* snapshot, the power-up writes, the first SimpleRender.
StartGB ==
    /\ phase = "start"
    /\ \E bootOk \in BOOLEAN, cartOk \in BOOLEAN, size \in CartSizes :
         IF bootOk /\ cartOk
         THEN \E g \in PowerOn(GB, size) :
                /\ SetGB(g)
                /\ phase' = IF g.st = "ok" THEN "poll" ELSE "abort"
                /\ frames' = IF g.st = "ok" THEN frames + 1 ELSE frames
                /\ running' = (g.st = "ok")
                /\ loaded' = "ok"
         ELSE /\ phase' = "exit"
              /\ loaded' = IF bootOk THEN "nocart" ELSE "noboot"
              /\ UNCHANGED <<gbVars, frames, running>>
    /\ count' = 0
    /\ UNCHANGED <<quit, opcode, instrPC, executed, vector, presented, busLog, romOps, budget,
                   exitCode>>

\* The event loop with the SDL_QUIT test lost: the event is read and dropped.
PollEventsDropQuit ==
    /\ phase = "poll"
    /\ budget > 0
    /\ \E q \in BOOLEAN :
         /\ running' = running
         /\ quit' = q
    /\ phase' = "exec"
    /\ budget' = budget - 1
    /\ UNCHANGED <<gbVars, count, histVars, romOps, mainVars>>

\* while (SDL_PollEvent(&e)) if (e.type == SDL_QUIT) running = false;
PollEvents ==
    /\ phase = "poll"
    /\ budget > 0
    /\ \E q \in BOOLEAN :
         /\ running' = (running /\ ~q)
         /\ quit' = q
    /\ phase' = "exec"
    /\ budget' = budget - 1
    /\ UNCHANGED <<gbVars, count, histVars, romOps, mainVars>>

\* The DoInstruction call with the gb->halted test lost
ExecuteIgnoreHalt ==
    /\ phase = "exec"
    /\ \E r \in DoInstruction(GB, romOps) :
         /\ SetGB(r[2])
         /\ running' = (running /\ r[1])
         /\ opcode' = r[3]
         /\ instrPC' = regs[REG_PC]
         /\ executed' = Append(executed, [op |-> r[3], pc |-> regs[REG_PC],
                                          pre |-> GB, post |-> r[2]])
         /\ phase' = IF r[2].st = "ok" THEN "irq" ELSE "abort"
    /\ UNCHANGED <<quit, count, vector, frames, presented, busLog, romOps, budget, mainVars>>

\* if (!gb->halted && !DoInstruction(gb)) running = false;
Execute ==
    /\ phase = "exec"
    /\ IF halted
       THEN /\ phase' = "irq"
            /\ opcode' = -1
            /\ instrPC' = -1
            /\ UNCHANGED <<gbVars, running, executed>>
       ELSE \E r \in DoInstruction(GB, romOps) :
              /\ SetGB(r[2])
              /\ running' = (running /\ r[1])
              /\ opcode' = r[3]
              /\ instrPC' = regs[REG_PC]
              /\ executed' = Append(executed, [op |-> r[3], pc |-> regs[REG_PC],
                                               pre |-> GB, post |-> r[2]])
              /\ phase' = IF r[2].st = "ok" THEN "irq" ELSE "abort"
    /\ UNCHANGED <<quit, count, vector, frames, presented, busLog, romOps, budget, mainVars>>

\* The CheckInterrupt / CallInterrupt chain
Interrupts ==
    /\ phase = "irq"
    /\ \E r \in ServiceInterrupts(GB) :
         /\ SetGB(r[2])
         /\ vector' = r[1]
         /\ phase' = IF r[2].st = "ok" THEN "tick" ELSE "abort"
    /\ UNCHANGED <<running, quit, count, opcode, instrPC, executed, frames, presented,
                   busLog, romOps, budget, mainVars>>

\* The LY block, the periodic SimpleRender, count += 1, and, when the loop
\* ends, the SimpleRender after it.
Tick ==
    /\ phase = "tick"
    /\ \E g \in TickLY(GB) :
         /\ SetGB(g)
         /\ phase' = IF g.st # "ok" THEN "abort" ELSE IF running THEN "poll" ELSE "exit"
         /\ presented' = (g.st = "ok" /\ RenderDue(count))
         /\ frames' = IF g.st # "ok" THEN frames
                      ELSE frames + BoolInt(RenderDue(count)) + BoolInt(~running)
         /\ count' = IF g.st = "ok" THEN count + 1 ELSE count
    /\ UNCHANGED <<running, quit, opcode, instrPC, executed, vector, busLog, romOps, budget,
                   mainVars>>

NextRun == PollEvents \/ Execute \/ Interrupts \/ Tick

\* The end of main: 'return 1' when CreateGB returned NULL; else DestroyGB
\* and 'return 0' once StartGB has returned.  DestroyGB frees gb->cart when
\* it is not NULL: StartGB has not assigned it when the boot ROM failed to
\* load, and freeing the pointer malloc left there can end the process with
\* SIGABRT (134) or SIGSEGV (139); bootRom is never freed.
MainReturn ==
    /\ exitCode = -1
    /\ \/ /\ phase = "nogb"
          /\ exitCode' = 1
       \/ /\ phase = "exit"
          /\ exitCode' \in (IF loaded = "noboot" THEN {0, 134, 139} ELSE {0})
    /\ UNCHANGED <<gbVars, phase, running, quit, count, histVars, romOps, budget, loaded>>

Next == StartGB \/ NextRun \/ MainReturn

\* A run of the program from main
Spec == Init /\ [][Next]_vars

-----------------------------------------------------------------------------
(* One instruction, every opcode byte, from machines in the middle of a    *)
(* run and from the power-on machine.                                      *)

InitInstr ==
    \/ \E sz \in CartSizes : \E g \in PowerOn(Loaded(CART_TYPE_ROM_ONLY, sz), sz) :
         Start(g, "poll", Byte, 1)
    \/ \E sp \in {65534, 53248}, hl \in {49152, 333}, af \in {0, 15488, 65424} :
         \E g \in Running(336, sp, hl, af, 0, 0, 143) : Start(g, "poll", Byte, 1)
    \/ \E g \in Running(336, 65534, 49152, 0, 1, 1, 143) : Start(g, "poll", Byte, 1)

SpecInstr == InitInstr /\ [][NextRun]_vars

-----------------------------------------------------------------------------
(* Short instruction sequences from machines in the middle of a run.       *)

SeqOpcodes == {0, 34, 58, 118, 251}

InitSeq ==
    \E pc \in {336, 4096}, sp \in {65534, 53248}, hl \in {49152, 333}, af \in {0, 15360},
       ie \in {0, 1}, ly \in {142, 143} :
         \E g \in Running(pc, sp, hl, af, ie, 0, ly) : Start(g, "poll", SeqOpcodes, MaxIter)

SpecSeq == InitSeq /\ [][NextRun]_vars

-----------------------------------------------------------------------------
(* Interrupt dispatch from the machine of an interrupt test: IE = $01, IF  *)
(* bit 0 clear, IME set by the test driver, LY just below 144.             *)

IrqOpcodes == {0, 62, 118}

InitIrq ==
    \E pc \in {336, 4096}, sp \in {65534, 53248}, ly \in {142, 143} :
         \E g \in Running(pc, sp, 333, 0, 1, 0, ly) :
             Start([g EXCEPT !.IME = TRUE], "poll", IrqOpcodes, MaxIter)

SpecIrq == InitIrq /\ [][NextRun]_vars

-----------------------------------------------------------------------------
(* Interrupt dispatch with several sources enabled and requested: IME set  *)
(* by the test driver, IE and IF with more than one bit.                   *)

InitPrio ==
    \E sp \in {65534, 53248}, ie \in {1, 6, 24, 31}, iflag \in {0, 2, 5, 28, 255} :
         \E g \in Running(336, sp, 333, 0, ie, iflag, 10) :
             Start([g EXCEPT !.IME = TRUE], "poll", IrqOpcodes, MaxIter)

SpecPrio == InitPrio /\ [][NextRun]_vars

-----------------------------------------------------------------------------
(* The LY block from machines in the middle of a run: LY anywhere in a     *)
(* byte (the byte is never initialised), IF with other bits set, a program *)
(* that may write $FF44.                                                   *)

\* NOP, LD (HL),A, HALT
TimeOpcodes == {0, 119, 118}

InitTime ==
    \E hl \in {333, 65348}, iflag \in {0, 1, 4, 226},
       ly \in {0, 142, 143, 144, 152, 153, 154, 255} :
         \E g \in Running(336, 65534, hl, 0, 1, iflag, ly) :
             Start(g, "poll", TimeOpcodes, MaxIter)

SpecTime == InitTime /\ [][NextRun]_vars

-----------------------------------------------------------------------------
(* JR d from machines in the middle of a run: the opcode $18 at PC and the *)
(* displacement byte after it, in ROM, in RAM and across the top of the    *)
(* address space (the byte at $FFFF is IE).                                *)

InitJr ==
    \E p \in {0, 512, 16382, 49152, 65534, 65535}, d \in {0, 2, 127, 128, 254, 255},
       af \in {0, 65424} :
         \E g \in Running(p, 65534, 333, af, 0, 0, 143) :
             LET Put(h, a, v) == IF a >= MEM_BASE
                                 THEN [h EXCEPT !.mem = Store(@, a - MEM_BASE, v)]
                                 ELSE [h EXCEPT !.cart = Store(@, a, v)]
             IN  Start(Put(Put(g, p, 24), U16(p + 1), d), "poll", {0, 24}, MaxIter)

SpecJr == InitJr /\ [][NextRun]_vars

-----------------------------------------------------------------------------
(* The bus functions called directly: WriteMem and ReadMem on the loaded   *)
(* machine.                                                                *)

\* Addresses of the calls: the boot window, the bank-select window, the
\* switchable ROM window, external RAM (its first byte is gb->mem[0x2000]),
\* LY and the boot latch.
BusAddrs == {0, 8192, 16384, 40960, 65348, 65360}
BusVals  == {0, 2}

BusWrite ==
    /\ phase = "bus"
    /\ st = "ok"
    /\ Len(busLog) < MaxBus
    /\ \E addr \in BusAddrs, val \in BusVals : \E r \in WriteMem(GB, addr, val) :
         /\ SetGB(r[2])
         /\ busLog' = Append(busLog, [kind |-> "write", addr |-> addr, val |-> val,
                                      src |-> "", idx |-> -1, st |-> r[2].st])
    /\ UNCHANGED <<phase, running, quit, count, opcode, instrPC, executed, vector, frames,
                   presented, romOps, budget, mainVars>>

BusRead ==
    /\ phase = "bus"
    /\ st = "ok"
    /\ Len(busLog) < MaxBus
    /\ \E addr \in BusAddrs : \E s \in ReadSource(GB, addr) : \E r \in ReadMem(s[3], addr, RomData) :
         /\ SetGB(r[2])
         /\ busLog' = Append(busLog, [kind |-> "read", addr |-> addr, val |-> r[1],
                                      src |-> s[1], idx |-> s[2], st |-> r[2].st])
    /\ UNCHANGED <<phase, running, quit, count, opcode, instrPC, executed, vector, frames,
                   presented, romOps, budget, mainVars>>

NextBus == BusWrite \/ BusRead

InitBus ==
    \E t \in CartTypes, sz \in CartSizes : Start(Loaded(t, sz), "bus", {}, 0)

SpecBus == InitBus /\ [][NextBus]_vars

-----------------------------------------------------------------------------
(* The stack functions called directly: Push16 and Pop16 on machines in    *)
(* the middle of a run, SP in RAM, at the bottom of RAM, next to LY, next  *)
(* to the boot latch and next to the byte behind $A000.                    *)

StackPush ==
    /\ phase = "stack"
    /\ st = "ok"
    /\ Len(busLog) < MaxBus
    /\ \E val \in {0, 255, 336, 4660, 65280, 65535} : \E r \in Push16(GB, val) :
         /\ SetGB(r[2])
         /\ busLog' = Append(busLog, [kind |-> "push", addr |-> regs[REG_SP], val |-> val,
                                      src |-> "", idx |-> -1, st |-> r[2].st])
    /\ UNCHANGED <<phase, running, quit, count, opcode, instrPC, executed, vector, frames,
                   presented, romOps, budget, mainVars>>

StackPop ==
    /\ phase = "stack"
    /\ st = "ok"
    /\ Len(busLog) < MaxBus
    /\ \E r \in Pop16(GB) :
         /\ SetGB(r[2])
         /\ busLog' = Append(busLog, [kind |-> "pop", addr |-> regs[REG_SP], val |-> r[1],
                                      src |-> "", idx |-> -1, st |-> r[2].st])
    /\ UNCHANGED <<phase, running, quit, count, opcode, instrPC, executed, vector, frames,
                   presented, romOps, budget, mainVars>>

NextStack == StackPush \/ StackPop

InitStack ==
    \E sp \in {65534, 53248, 32769, 40961, 65348, 65349, 65350, 65360, 65361, 65535} :
        \E g \in Running(336, sp, 333, 0, 0, 0, 143) : Start(g, "stack", {}, 0)

SpecStack == InitStack /\ [][NextStack]_vars

-----------------------------------------------------------------------------
(* Vocabulary of the properties.                                           *)

\* The byte of gb->mem behind address addr in the map m, -1 when no write
\* and no read has fixed it yet
ByteAt(m, addr) == IF addr - MEM_BASE \in DOMAIN m THEN m[addr - MEM_BASE] ELSE -1

\* IE & IF != 0, both bytes fixed
Pending(m) ==
    /\ ByteAt(m, ADDR_IE) >= 0
    /\ ByteAt(m, ADDR_IF) >= 0
    /\ And(ByteAt(m, ADDR_IE), ByteAt(m, ADDR_IF)) > 0

\* The byte a read of addr returns on machine g when it is fixed already, else -1
KnownByte(g, addr) ==
    LET R == ReadSource(g, addr)
    IN  IF Cardinality(R) # 1 THEN -1
        ELSE LET r == CHOOSE x \in R : TRUE
                 f == CASE r[1] = "mem" -> g.mem
                        [] r[1] = "bootRom" -> g.bootRom
                        [] r[1] = "cart" -> g.cart
             IN  IF r[2] \in DOMAIN f THEN f[r[2]] ELSE -1

Lo(x) == x % 256
Hi(x) == (x \div 256) % 256

Last == executed[Len(executed)]

\* The instruction lengths of the LR35902 encoding: 3 bytes with a 16-bit
\* immediate, 2 with an 8-bit immediate or displacement, 2 for STOP and for
\* the CB prefix, 1 otherwise.
DocLength(op) ==
    IF op \in {1, 17, 33, 49, 8, 194, 195, 202, 210, 218, 196, 204, 205, 212, 220, 234, 250}
    THEN 3
    ELSE IF op \in {6, 14, 22, 30, 38, 46, 54, 62, 198, 206, 214, 222, 230, 238, 246, 254,
                    24, 32, 40, 48, 56, 224, 240, 232, 248, 16, 203}
    THEN 2
    ELSE 1

\* JP, JR, CALL, RET, RETI, RST in all their forms
Transfers ==
    {195, 233, 194, 202, 210, 218, 24, 32, 40, 48, 56, 205, 196, 204, 212, 220,
     201, 192, 200, 208, 216, 217, 199, 207, 215, 223, 231, 239, 247, 255}

\* Bytes the encoding leaves without an instruction
Unassigned == {211, 219, 221, 227, 228, 235, 236, 237, 244, 252, 253}

-----------------------------------------------------------------------------
(* C1.                                                                     *)

\* C1: from IE = $01, IF bit 0 clear and IME set on a ROM_ONLY cartridge: the
\* tick that brings LY to 144 sets IF bit 0; the interrupt check that then
\* finds it dispatches to $0040; the dispatch pushes the PC it interrupts
\* (SP drops by two, the two bytes of that PC are on the stack), clears IME,
\* clears IF bit 0 and sets PC = $0040.
C1_VBlankDispatch ==
    [][ /\ (phase = "tick" /\ phase' # "abort" /\ ByteAt(mem', ADDR_LY) = 144)
            => And(ByteAt(mem', ADDR_IF), 1) = 1
        /\ (phase = "irq" /\ IME /\ And(ByteAt(mem, ADDR_IE), 1) = 1
                          /\ And(ByteAt(mem, ADDR_IF), 1) = 1)
            => vector' = 64
        /\ (phase = "irq" /\ vector' = 64)
            => /\ regs'[REG_PC] = 64
               /\ And(ByteAt(mem', ADDR_IF), 1) = 0
               /\ regs'[REG_SP] = U16(regs[REG_SP] - 2 + 65536)
               /\ ByteAt(mem', U16(regs[REG_SP] - 1 + 65536)) = Hi(regs[REG_PC])
               /\ \/ ByteAt(mem', U16(regs[REG_SP] - 2 + 65536)) = Lo(regs[REG_PC])
                  \/ ByteAt(mem', regs[REG_SP]) = Lo(regs[REG_PC])
               /\ ~IME'
      ]_vars

\* The dispatch of C1 has happened: LY came to 144, the next interrupt check
\* called CallInterrupt(0x40).
C1_Dispatched ==
    /\ phase = "tick"
    /\ vector = 64
    /\ regs[REG_PC] = 64
    /\ ByteAt(mem, ADDR_LY) = 144
    /\ And(ByteAt(mem, ADDR_IF), 1) = 0

-----------------------------------------------------------------------------
(* C2.                                                                     *)

\* C2: EI ($FB) executed with IME clear leaves IME clear, and the interrupt
\* check after it enters no handler; after the one instruction that follows
\* (not DI) IME is set, and an enabled interrupt pending at that point has its
\* handler entered by the interrupt check after that instruction.
C2_EiDelayed ==
    (phase = "tick" /\ opcode # -1 /\ Len(executed) >= 1)
    => /\ (Last.op = 251 /\ ~Last.pre.IME) => (~Last.post.IME /\ vector = -1)
       /\ (/\ Len(executed) >= 2
           /\ executed[Len(executed) - 1].op = 251
           /\ Last.op \notin {243, 251})
          => /\ Last.post.IME
             /\ Pending(Last.post.mem) => vector # -1

\* EI, then one instruction, then the interrupt check with IE & IF != 0
C2_EiThenOne ==
    /\ phase = "tick"
    /\ opcode = 0
    /\ Len(executed) = 2
    /\ executed[1].op = 251
    /\ Pending(mem)

-----------------------------------------------------------------------------
(* C3.                                                                     *)

\* C3: a loop iteration that starts halted and whose interrupt check sees
\* IE & IF != 0 with IME clear ends with the CPU not halted, nothing
\* dispatched and the IF bit still set.
C3_HaltWakes ==
    (phase = "tick" /\ opcode = -1 /\ ~IME /\ Pending(mem))
    => (~halted /\ vector = -1)

\* HALT was executed, VBlank was raised while halted with IE bit 0 set and
\* IME clear, and an interrupt check has run since.
C3_HaltedPending ==
    /\ phase = "tick"
    /\ opcode = -1
    /\ Len(executed) = 1
    /\ executed[1].op = 118
    /\ ~IME
    /\ Pending(mem)
    /\ vector = -1

-----------------------------------------------------------------------------
(* C4.                                                                     *)

\* C4: on a ROM_ONLY cartridge, once a bus write has stored a non-zero value
\* at $FF50, every later read of an address in $0000-$00FF returns the
\* cartridge byte, whatever was written in between.
C4_BootLatchMonotonic ==
    KnownByte(GB, CART_CART_TYPE) = CART_TYPE_ROM_ONLY
    => \A i \in 1..Len(busLog) : \A j \in 1..Len(busLog) :
           (/\ i < j
            /\ busLog[i].kind = "write"
            /\ busLog[i].addr = ADDR_BOOT
            /\ busLog[i].val # 0
            /\ busLog[j].kind = "read"
            /\ busLog[j].addr <= 255)
           => busLog[j].src = "cart"

\* A non-zero write to $FF50, and a later read of $0000 with the latch still
\* non-zero, served from the cartridge
C4_LatchedRead ==
    /\ Len(busLog) = 2
    /\ cart[CART_CART_TYPE] = CART_TYPE_ROM_ONLY
    /\ busLog[1].kind = "write" /\ busLog[1].addr = ADDR_BOOT /\ busLog[1].val = 2
    /\ busLog[2].kind = "read" /\ busLog[2].addr = 0 /\ busLog[2].src = "cart"

-----------------------------------------------------------------------------
(* C5.                                                                     *)

\* C5: the low nibble of F is zero at every instruction boundary, for every
\* opcode byte: (regs[REG_AF] & 0x0F) == 0 before and after every call of
\* DoInstruction and at every other step of the loop.
C5_FLowNibbleZero ==
    /\ And(regs[REG_AF], 15) = 0
    /\ \A i \in 1..Len(executed) : And(executed[i].post.regs[REG_AF], 15) = 0

\* LD A,$FE has executed with flags set before it: A is written, F keeps its
\* high nibble, the low nibble is zero.
C5_LoadedA ==
    /\ phase = "irq"
    /\ opcode = 62
    /\ regs[REG_AF] = 65168

-----------------------------------------------------------------------------
(* C6.                                                                     *)

\* C6: for every opcode byte that is an instruction and no JP, JR, CALL, RET,
\* RETI or RST, DoInstruction leaves PC = PC before + the instruction's
\* length, modulo 65536.
C6_PCAdvancesByLength ==
    \A i \in 1..Len(executed) :
        LET e == executed[i]
        IN  (e.post.st = "ok" /\ e.op \notin Transfers /\ e.op \notin Unassigned)
            => e.post.regs[REG_PC] = U16(e.pc + DocLength(e.op))

\* LD HL,nn has executed and PC moved on by its three bytes
C6_ThreeBytes ==
    /\ phase = "irq"
    /\ opcode = 33
    /\ regs[REG_PC] = U16(instrPC + 3)

-----------------------------------------------------------------------------
(* C7.                                                                     *)

\* C7: CALL nn ($CD) at PC = p with SP = s leaves SP = s-2, mem[s-2] = low
\* byte of p+3, mem[s-1] = high byte of p+3 and PC = nn (the word at p+1);
\* RET ($C9) executed next leaves SP = s and PC = p+3.
C7_CallRet ==
    \A i \in 1..Len(executed) :
        LET e == executed[i]
            p == e.pc
            s == e.pre.regs[REG_SP]
        IN  (e.op = 205 /\ e.post.st = "ok")
            => /\ e.post.regs[REG_SP] = U16(s - 2 + 65536)
               /\ ByteAt(e.post.mem, U16(s - 2 + 65536)) = Lo(U16(p + 3))
               /\ ByteAt(e.post.mem, U16(s - 1 + 65536)) = Hi(U16(p + 3))
               /\ e.post.regs[REG_PC] = KnownByte(e.post, U16(p + 1))
                                        + 256 * KnownByte(e.post, U16(p + 2))
               /\ (/\ i < Len(executed)
                   /\ executed[i + 1].op = 201
                   /\ executed[i + 1].post.st = "ok")
                  => /\ executed[i + 1].post.regs[REG_SP] = s
                     /\ executed[i + 1].post.regs[REG_PC] = U16(p + 3)

\* The byte $CD was executed at the power-on PC and SP, the byte $C9 after it
C7_CallThenRet ==
    /\ Len(executed) = 2
    /\ executed[1].op = 205
    /\ executed[1].pc = 0
    /\ executed[1].pre.regs[REG_SP] = 65534
    /\ executed[2].op = 201

-----------------------------------------------------------------------------
(* C8.                                                                     *)

\* C8: PUSH rr ($C5/$D5/$E5) followed at once by POP rr ($C1/$D1/$E1) leaves
\* rr and SP as before the PUSH, for rr = BC, DE, HL; PUSH AF ($F5) followed
\* by POP AF ($F1) leaves SP and A as before and F as before with its low
\* nibble zero.
C8_PushPop ==
    \A i \in 1..(Len(executed) - 1) :
        LET e == executed[i]
            f == executed[i + 1]
        IN  f.post.st = "ok"
            => /\ \A rr \in {REG_BC, REG_DE, REG_HL} :
                    (e.op = 197 + 16 * rr /\ f.op = 193 + 16 * rr)
                    => /\ f.post.regs[rr] = e.pre.regs[rr]
                       /\ f.post.regs[REG_SP] = e.pre.regs[REG_SP]
               /\ (e.op = 245 /\ f.op = 241)
                  => /\ f.post.regs[REG_AF] = ClearBits(e.pre.regs[REG_AF], 15)
                     /\ f.post.regs[REG_SP] = e.pre.regs[REG_SP]

\* The bytes $C5 and $C1 were executed one after the other from power-on
C8_PushThenPop ==
    /\ Len(executed) = 2
    /\ executed[1].op = 197
    /\ executed[2].op = 193
    /\ executed[1].pre.regs[REG_BC] = 19

-----------------------------------------------------------------------------
(* C9.                                                                     *)

\* C9: LDI (HL),A ($22) at HL = h, h writable, followed by LDD A,(HL) ($3A)
\* at HL = h+1 leaves A as before the LDI and HL = h.
C9_LdiLdd ==
    \A i \in 1..(Len(executed) - 1) :
        LET e == executed[i]
            f == executed[i + 1]
            h == e.pre.regs[REG_HL]
        IN  (/\ e.op = 34 /\ f.op = 58
             /\ h >= MEM_BASE /\ h < 65024
             /\ f.pre.regs[REG_HL] = U16(h + 1)
             /\ f.post.st = "ok")
            => /\ A8(f.post) = A8(e.pre)
               /\ f.post.regs[REG_HL] = h

\* The bytes $22 and $3A were executed one after the other with HL = $C000
C9_LdiThenLdd ==
    /\ Len(executed) = 2
    /\ executed[1].op = 34
    /\ executed[1].pre.regs[REG_HL] = 49152
    /\ executed[2].op = 58
    /\ ByteAt(mem, 49152) = A8(executed[1].pre)

-----------------------------------------------------------------------------
(* C10.                                                                    *)

\* The bank a write of v to $2000-$3FFF selects: v & 0x1F, 0 coerced to 1
BankOf(v) == IF v % 32 = 0 THEN 1 ELSE v % 32

\* C10: on an MBC1 cartridge a bus write of v to $2000-$3FFF returns
\* normally, and a later read of $4000+k, no other bank write in between,
\* returns the ROM byte at offset BankOf(v)*$4000 + k.
C10_Mbc1BankSelect ==
    KnownByte(GB, CART_CART_TYPE) = CART_TYPE_MBC1
    => \A i \in 1..Len(busLog) :
           (busLog[i].kind = "write" /\ busLog[i].addr >= 8192 /\ busLog[i].addr <= 16383)
           => /\ busLog[i].st = "ok"
              /\ \A j \in (i + 1)..Len(busLog) :
                     (/\ busLog[j].kind = "read"
                      /\ busLog[j].addr >= 16384 /\ busLog[j].addr <= 32767
                      /\ \A k \in (i + 1)..(j - 1) :
                             ~(busLog[k].kind = "write" /\ busLog[k].addr >= 8192
                                                        /\ busLog[k].addr <= 16383))
                     => /\ busLog[j].src = "cart"
                        /\ busLog[j].idx = BankOf(busLog[i].val) * 16384
                                           + (busLog[j].addr - 16384)

\* WriteMem($2000, $02) was called on a 64 KiB MBC1 cartridge
C10_BankWrite ==
    /\ Len(busLog) = 1
    /\ cart[CART_CART_TYPE] = CART_TYPE_MBC1
    /\ cartSize = 65536
    /\ busLog[1].kind = "write" /\ busLog[1].addr = 8192 /\ busLog[1].val = 2

-----------------------------------------------------------------------------
(* C11.                                                                    *)

\* The last call of the bus log
LastBus == busLog[Len(busLog)]

\* The step appends a call of the given kind to the bus log
BusStep(kind) ==
    /\ Len(busLog') = Len(busLog) + 1
    /\ busLog'[Len(busLog')].kind = kind

\* C11: on a ROM of at least two banks, after any sequence of bus writes, a
\* read of $4000+k is served from the ROM image at an offset >= $4000, and
\* with a selected bank value of 0 it is served as with bank 1, from offset
\* $4000+k.
C11_Bank0NeverVisible ==
    cartSize >= 32768
    => /\ \A i \in 1..Len(busLog) :
              (/\ busLog[i].kind = "read"
               /\ busLog[i].addr >= 16384 /\ busLog[i].addr <= 32767)
              => /\ busLog[i].src = "cart"
                 /\ busLog[i].idx >= 16384
       /\ (/\ Len(busLog) > 0
           /\ LastBus.kind = "read"
           /\ LastBus.addr >= 16384 /\ LastBus.addr <= 32767
           /\ ByteAt(mem, 40960) >= 0
           /\ ByteAt(mem, 40960) % 32 = 0)
          => LastBus.idx = LastBus.addr

\* $4000 was read on a ROM_ONLY cartridge after WriteMem($A000, $00)
C11_ReadBanked ==
    /\ Len(busLog) = 2
    /\ cart[CART_CART_TYPE] = CART_TYPE_ROM_ONLY
    /\ busLog[1].kind = "write" /\ busLog[1].addr = 40960 /\ busLog[1].val = 0
    /\ busLog[2].kind = "read" /\ busLog[2].addr = 16384

-----------------------------------------------------------------------------
(* C12.                                                                    *)

\* C12: on a ROM_ONLY cartridge, after any sequence of bus writes, a read of
\* a in $0000-$7FFF that the boot latch lets through to the cartridge
\* returns the ROM byte at offset a.
C12_RomOnlyDirect ==
    KnownByte(GB, CART_CART_TYPE) = CART_TYPE_ROM_ONLY
    => \A i \in 1..Len(busLog) :
           (/\ busLog[i].kind = "read"
            /\ busLog[i].addr < MEM_BASE
            /\ busLog[i].src = "cart")
           => busLog[i].idx = busLog[i].addr

\* $4000 was read on a 64 KiB ROM_ONLY cartridge after WriteMem($A000, $02)
C12_ReadAfterRamWrite ==
    /\ Len(busLog) = 2
    /\ cart[CART_CART_TYPE] = CART_TYPE_ROM_ONLY
    /\ cartSize = 65536
    /\ busLog[1].kind = "write" /\ busLog[1].addr = 40960 /\ busLog[1].val = 2
    /\ busLog[2].kind = "read" /\ busLog[2].addr = 16384

-----------------------------------------------------------------------------
(* C13.                                                                    *)

\* C13: on a ROM_ONLY cartridge a bus write to an address in $0000-$7FFF
\* leaves the whole machine as it was: ROM image, boot ROM, RAM and I/O
\* bytes, registers, IME, halted; so every later read sees what it would
\* have seen without the write.
C13_RomWriteIgnored ==
    [][(/\ BusStep("write")
        /\ KnownByte(GB, CART_CART_TYPE) = CART_TYPE_ROM_ONLY
        /\ busLog'[Len(busLog')].addr < MEM_BASE)
       => UNCHANGED gbVars]_vars

\* WriteMem($2000, $02) was called on a ROM_ONLY cartridge, then $4000 read
C13_WroteToRom ==
    /\ Len(busLog) = 2
    /\ cart[CART_CART_TYPE] = CART_TYPE_ROM_ONLY
    /\ busLog[1].kind = "write" /\ busLog[1].addr = 8192 /\ busLog[1].val = 2
    /\ busLog[1].st = "ok"
    /\ busLog[2].kind = "read" /\ busLog[2].addr = 16384

-----------------------------------------------------------------------------
(* C19.                                                                    *)

\* C19: on a ROM_ONLY cartridge a bus write of any value to $FF44 stores 0
\* there: a read of $FF44 right after it returns 0, and no other byte of
\* memory and no register changes.
C19_LyWriteClears ==
    [][(/\ BusStep("write")
        /\ KnownByte(GB, CART_CART_TYPE) = CART_TYPE_ROM_ONLY
        /\ busLog'[Len(busLog')].addr = ADDR_LY)
       => /\ mem' = Store(mem, ADDR_LY - MEM_BASE, 0)
          /\ { r[1] : r \in ReadMem(GB', ADDR_LY, RomData) } = {0}
          /\ UNCHANGED <<regs, IME, halted, cart, bootRom, cartSize, st>>]_vars

\* WriteMem($FF44, $02) was called on a ROM_ONLY cartridge
C19_WroteLy ==
    /\ Len(busLog) = 1
    /\ cart[CART_CART_TYPE] = CART_TYPE_ROM_ONLY
    /\ busLog[1].kind = "write" /\ busLog[1].addr = ADDR_LY /\ busLog[1].val = 2
    /\ ByteAt(mem, ADDR_LY) = 0

-----------------------------------------------------------------------------
(* C14.                                                                    *)

\* The type bytes WriteMem's switch has a case for
Supported ==
    {CART_TYPE_ROM_ONLY, CART_TYPE_MBC1, CART_TYPE_MBC1_RAM, CART_TYPE_MBC1_RAM_BATTERY,
     CART_TYPE_MBC2, CART_TYPE_MBC2_BATTERY}

\* C14: with a type byte at $0147 that is no supported mapper, StartGB
\* returns before the run loop: no instruction is executed, no frame is
\* rendered, the loop is never entered.
C14_UnsupportedRejected ==
    (KnownByte(GB, CART_CART_TYPE) >= 0 /\ KnownByte(GB, CART_CART_TYPE) \notin Supported)
    => /\ phase \in {"start", "exit"}
       /\ executed = <<>>
       /\ frames = 0

\* An instruction was executed on a cartridge of type $1B
C14_UnsupportedRuns ==
    /\ CART_CART_TYPE \in DOMAIN cart
    /\ cart[CART_CART_TYPE] = 27
    /\ phase = "irq"
    /\ Len(executed) = 1

-----------------------------------------------------------------------------
(* C15.                                                                    *)

\* C15: when the opcode fetched is one of $D3, $DB, $DD, $E3, $E4, $EB, $EC,
\* $ED, $F4, $FC, $FD, DoInstruction returns false, so 'running' is false
\* after it, and the registers other than PC and every byte of memory are as
\* before the fetch.
C15_DecodeFailure ==
    /\ (phase = "irq" /\ opcode \in Unassigned) => ~running
    /\ \A i \in 1..Len(executed) :
           LET e == executed[i]
           IN  (e.op \in Unassigned /\ e.post.st = "ok")
               => /\ \A r \in {REG_BC, REG_DE, REG_HL, REG_SP, REG_AF} :
                         e.post.regs[r] = e.pre.regs[r]
                  /\ \A k \in DOMAIN e.pre.mem : e.post.mem[k] = e.pre.mem[k]

\* The byte $D3 was fetched as an opcode with DE = $00D8
C15_FetchedD3 ==
    /\ phase = "irq"
    /\ opcode = 211
    /\ Len(executed) = 1
    /\ executed[1].pre.regs[REG_DE] = 216

-----------------------------------------------------------------------------
(* C16.                                                                    *)

\* C16: when the event loop of an iteration has seen SDL_QUIT, 'running' is
\* false from then on, the instruction of that iteration is executed as in
\* any other iteration, the loop ends after that iteration's LY block, and no
\* later iteration (no further poll, no further instruction) starts.
C16_QuitStops ==
    [][/\ quit' => ~running'
       /\ (quit /\ phase = "exec" /\ ~halted) => Len(executed') = Len(executed) + 1
       /\ (quit /\ phase = "tick" /\ st' = "ok") => phase' = "exit"
       /\ quit => phase' # "poll"
       /\ phase = "exit" => executed' = executed]_vars

\* Quit was read in the first iteration: its instruction ran, the loop ended
C16_QuitInFirst ==
    /\ phase = "exit"
    /\ quit
    /\ count = 1
    /\ Len(executed) = 1

-----------------------------------------------------------------------------
(* C17.                                                                    *)

\* C17: on a ROM_ONLY cartridge the LY block of an iteration leaves IF = IF
\* before | 1 when it brings LY to 144, and leaves IF as it was in every
\* other iteration.
C17_VBlankAt144 ==
    [][(/\ phase = "tick"
        /\ st' = "ok"
        /\ KnownByte(GB, CART_CART_TYPE) = CART_TYPE_ROM_ONLY
        /\ ByteAt(mem, ADDR_IF) >= 0)
       => IF ByteAt(mem', ADDR_LY) = 144
          THEN ByteAt(mem', ADDR_IF) = Or(ByteAt(mem, ADDR_IF), 1)
          ELSE ByteAt(mem', ADDR_IF) = ByteAt(mem, ADDR_IF)]_vars

\* The first LY block took LY from 143 to 144 with IF = $04 before it
C17_Reached144 ==
    /\ count = 2
    /\ Len(executed) >= 1
    /\ ByteAt(executed[1].pre.mem, ADDR_LY) = 143
    /\ ByteAt(executed[1].pre.mem, ADDR_IF) = 4
    /\ ByteAt(mem, ADDR_LY) = 144
    /\ ByteAt(mem, ADDR_IF) = 5

-----------------------------------------------------------------------------
(* C18.                                                                    *)

-----------------------------------------------------------------------------
(* C20.                                                                    *)

\* C20: the LY block calls SimpleRender in exactly those iterations in which
\* it takes LY from 153 to 0.
C20_FramePerWrap ==
    [][(phase = "tick" /\ st' = "ok" /\ ByteAt(mem, ADDR_LY) >= 0)
       => (presented' <=> (ByteAt(mem, ADDR_LY) = 153 /\ ByteAt(mem', ADDR_LY) = 0))]_vars

\* The LY block of the iteration with count = 1 took LY from 153 to 0
C20_WrapAtCountOne ==
    /\ count = 2
    /\ Len(executed) >= 1
    /\ executed[1].op = 118
    /\ ByteAt(executed[1].pre.mem, ADDR_LY) = 153
    /\ ByteAt(mem, ADDR_LY) = 0

-----------------------------------------------------------------------------
(* C21.                                                                    *)

\* The lowest-numbered bit of x that is set, among bits 0..4 (5: none)
RECURSIVE LowestBit(_, _)
LowestBit(x, b) == IF b >= 5 \/ And(x, Shl(1, b)) > 0 THEN b ELSE LowestBit(x, b + 1)

\* C21: on a ROM_ONLY cartridge, an interrupt check made with IME set and
\* IE & IF != 0 in bits 0..4 dispatches the lowest-numbered set bit b of
\* IE & IF and only it: CallInterrupt is called once, with $40 + 8*b, PC is
\* that vector, and IF is IF before with bit b cleared.
C21_LowestBitFirst ==
    [][(/\ phase = "irq"
        /\ st' = "ok"
        /\ IME
        /\ ByteAt(mem, ADDR_IE) >= 0
        /\ ByteAt(mem, ADDR_IF) >= 0
        /\ And(And(ByteAt(mem, ADDR_IE), ByteAt(mem, ADDR_IF)), 31) > 0)
       => LET b == LowestBit(And(ByteAt(mem, ADDR_IE), ByteAt(mem, ADDR_IF)), 0)
          IN  /\ vector' = 64 + 8 * b
              /\ regs'[REG_PC] = 64 + 8 * b
              /\ ByteAt(mem', ADDR_IF) = ClearBits(ByteAt(mem, ADDR_IF), Shl(1, b))
              /\ ByteAt(mem', ADDR_IE) = ByteAt(mem, ADDR_IE)]_vars

\* With IE = $1F and IF = $1C the timer interrupt (bit 2) was dispatched and
\* IF is left at $18
C21_TimerDispatched ==
    /\ phase = "tick"
    /\ count = 1
    /\ ByteAt(mem, ADDR_IE) = 31
    /\ ByteAt(mem, ADDR_IF) = 24
    /\ vector = 80
    /\ regs[REG_PC] = 80

-----------------------------------------------------------------------------
(* C22.                                                                    *)

\* The bytes ReadMem(addr) can be served from on machine g: array and index
Sources(g, addr) == { <<s[1], s[2]>> : s \in ReadSource(g, addr) }

\* C22: the boot ROM bytes, the cartridge bytes and the host events fix the
\* run: at every step of the loop the machine has one successor per input.
\* The opcode fetch is served from one byte, of a ROM image or a byte of
\* gb->mem written before, and the interrupt check and the LY block, which
\* read no input, have one outcome each.
C22_Deterministic ==
    /\ (phase = "exec" /\ ~halted)
       => /\ Cardinality(Sources(GB, regs[REG_PC])) = 1
          /\ \A s \in Sources(GB, regs[REG_PC]) : s[1] = "mem" => s[2] \in DOMAIN mem
    /\ phase = "irq" => Cardinality(ServiceInterrupts(GB)) = 1
    /\ phase = "tick" => Cardinality(TickLY(GB)) = 1

\* The first opcode fetch of a run on a ROM_ONLY cartridge: PC = 0, the byte
\* behind $FF50 never written
C22_FirstFetch ==
    /\ phase = "exec"
    /\ count = 0
    /\ regs[REG_PC] = 0
    /\ KnownByte(GB, CART_CART_TYPE) = CART_TYPE_ROM_ONLY
    /\ ByteAt(mem, ADDR_BOOT) = -1

-----------------------------------------------------------------------------
(* Vocabulary of the instruction properties: the LR35902 register          *)
(* encoding and flag layout.                                               *)

\* The 8-bit register with encoding r (0 B, 1 C, 2 D, 3 E, 4 H, 5 L, 7 A) in
\* the register file rs
Reg8(rs, r) ==
    CASE r = 0 -> Hi(rs[REG_BC])
      [] r = 1 -> Lo(rs[REG_BC])
      [] r = 2 -> Hi(rs[REG_DE])
      [] r = 3 -> Lo(rs[REG_DE])
      [] r = 4 -> Hi(rs[REG_HL])
      [] r = 5 -> Lo(rs[REG_HL])
      [] r = 7 -> Hi(rs[REG_AF])

\* F with the flags Z, N, H, C given as booleans
Flags(z, n, h, c) == 128 * BoolInt(z) + 64 * BoolInt(n) + 32 * BoolInt(h) + 16 * BoolInt(c)

\* The operand x of an executed 8-bit ALU instruction e: the immediate byte
\* for the opcodes $C0 and up (the byte after the opcode, known once it has
\* been fetched), the byte at HL for encoding 6, else the register
Src8(e) ==
    IF e.op >= 192 THEN KnownByte(e.post, U16(e.pc + 1))
    ELSE IF e.op % 8 = 6 THEN ByteAt(e.pre.mem, e.pre.regs[REG_HL])
    ELSE Reg8(e.pre.regs, e.op % 8)

\* The registers other than PC are in e.post as in e.pre, but for those in X
SameRegsBut(e, X) ==
    \A i \in {REG_BC, REG_DE, REG_HL, REG_SP, REG_AF} \ X : e.post.regs[i] = e.pre.regs[i]

-----------------------------------------------------------------------------
(* C23.                                                                    *)

\* C23: ADD A,x ($80-$85, $87, $C6, $86) with A = a and x = b leaves
\* A = (a+b) mod 256 and F = Z N H C with Z = (result = 0), N = 0,
\* H = ((a&15)+(b&15) > 15), C = (a+b > 255).
C23_Add ==
    \A i \in 1..Len(executed) :
        LET e == executed[i]
            a == Hi(e.pre.regs[REG_AF])
            b == Src8(e)
        IN  (e.op \in {128, 129, 130, 131, 132, 133, 135, 198, 134} /\ e.post.st = "ok" /\ b >= 0)
            => /\ Hi(e.post.regs[REG_AF]) = (a + b) % 256
               /\ Lo(e.post.regs[REG_AF]) =
                      Flags((a + b) % 256 = 0, FALSE, (a % 16) + (b % 16) > 15, a + b > 255)

\* ADD A,A ($87) was executed with A = $3C
C23_AddAA ==
    /\ phase = "irq"
    /\ opcode = 135
    /\ Hi(Last.pre.regs[REG_AF]) = 60
    /\ Last.post.st = "ok"

-----------------------------------------------------------------------------
(* C24.                                                                    *)

\* The flags of a - b
SubFlagsOf(a, b) == Flags((a - b + 256) % 256 = 0, TRUE, (a % 16) < (b % 16), a < b)

\* C24: SUB x ($90-$95, $97, $D6) with A = a and x = b leaves
\* A = (a-b) mod 256 and F with Z = (result = 0), N = 1, H = ((a&15) < (b&15)),
\* C = (a < b); CP x ($B8-$BD, $BF, $FE, $BE) leaves the same F and A and
\* every register but PC as before.
C24_SubCp ==
    \A i \in 1..Len(executed) :
        LET e == executed[i]
            a == Hi(e.pre.regs[REG_AF])
            b == Src8(e)
        IN  (e.post.st = "ok" /\ b >= 0)
            => /\ e.op \in {144, 145, 146, 147, 148, 149, 151, 214}
                  => /\ Hi(e.post.regs[REG_AF]) = (a - b + 256) % 256
                     /\ Lo(e.post.regs[REG_AF]) = SubFlagsOf(a, b)
               /\ e.op \in {184, 185, 186, 187, 188, 189, 191, 254, 190}
                  => /\ Hi(e.post.regs[REG_AF]) = a
                     /\ Lo(e.post.regs[REG_AF]) = SubFlagsOf(a, b)
                     /\ SameRegsBut(e, {REG_AF})

\* SUB B ($90) was executed with A = $3C and B = $00
C24_SubB ==
    /\ phase = "irq"
    /\ opcode = 144
    /\ Hi(Last.pre.regs[REG_AF]) = 60
    /\ Hi(Last.pre.regs[REG_BC]) = 0
    /\ Last.post.st = "ok"

-----------------------------------------------------------------------------
(* C25.                                                                    *)

\* C25: XOR x and OR x (register, immediate, (HL)) with A = a and x = b
\* leave A = a xor b / a or b and F = $80 for a zero result, $00 otherwise;
\* AND x leaves A = a and b and F with Z = (result = 0), N = 0, H = 1, C = 0.
\* XOR A ($AF) leaves A = $00 and F = $80.
C25_Logic ==
    \A i \in 1..Len(executed) :
        LET e == executed[i]
            a == Hi(e.pre.regs[REG_AF])
            b == Src8(e)
        IN  (e.post.st = "ok" /\ b >= 0)
            => /\ e.op \in {168, 169, 170, 171, 172, 173, 175, 238, 174}
                  => e.post.regs[REG_AF] = 256 * Xor(a, b) + Flags(Xor(a, b) = 0, FALSE, FALSE, FALSE)
               /\ e.op \in {176, 177, 178, 179, 180, 181, 183, 246, 182}
                  => e.post.regs[REG_AF] = 256 * Or(a, b) + Flags(Or(a, b) = 0, FALSE, FALSE, FALSE)
               /\ e.op \in {160, 161, 162, 163, 164, 165, 167, 230, 166}
                  => e.post.regs[REG_AF] = 256 * And(a, b) + Flags(And(a, b) = 0, FALSE, TRUE, FALSE)
               /\ e.op = 175 => e.post.regs[REG_AF] = 128

\* XOR A ($AF) was executed with A = $3C
C25_XorA ==
    /\ phase = "irq"
    /\ opcode = 175
    /\ Hi(Last.pre.regs[REG_AF]) = 60
    /\ Last.post.st = "ok"

-----------------------------------------------------------------------------
(* C26.                                                                    *)

\* F after INC / DEC of the value v, the carry flag as in F before
IncFlags(v, f) == Flags((v + 1) % 256 = 0, FALSE, v % 16 = 15, And(f, 16) > 0)
DecFlags(v, f) == Flags((v + 255) % 256 = 0, TRUE, v % 16 = 0, And(f, 16) > 0)

\* C26: INC r ($04, $0C, ..., $3C) with r = v leaves r = (v+1) mod 256,
\* Z = (result = 0), N = 0, H = ((v&15) = 15), C as before; DEC r ($05, $0D,
\* ..., $3D) leaves r = (v-1) mod 256, Z = (result = 0), N = 1,
\* H = ((v&15) = 0), C as before; INC (HL) ($34) and DEC (HL) ($35) do the
\* same to the byte at HL, HL in RAM.
C26_IncDec ==
    \A i \in 1..Len(executed) :
        LET e == executed[i]
            r == (e.op \div 8) % 8
            f == Lo(e.pre.regs[REG_AF])
            v == IF r = 6 THEN ByteAt(e.pre.mem, e.pre.regs[REG_HL]) ELSE Reg8(e.pre.regs, r)
            w == IF r = 6 THEN ByteAt(e.post.mem, e.pre.regs[REG_HL]) ELSE Reg8(e.post.regs, r)
        IN  (/\ e.post.st = "ok"
             /\ e.op < 64
             /\ r = 6 => (e.pre.regs[REG_HL] >= MEM_BASE /\ v >= 0))
            => /\ e.op % 8 = 4
                  => /\ w = (v + 1) % 256
                     /\ Lo(e.post.regs[REG_AF]) = IncFlags(v, f)
               /\ e.op % 8 = 5
                  => /\ w = (v + 255) % 256
                     /\ Lo(e.post.regs[REG_AF]) = DecFlags(v, f)

\* DEC B ($05) was executed with B = $00
C26_DecB ==
    /\ phase = "irq"
    /\ opcode = 5
    /\ Hi(Last.pre.regs[REG_BC]) = 0
    /\ Last.post.st = "ok"

-----------------------------------------------------------------------------
(* C27.                                                                    *)

\* The byte d as a two's-complement 8-bit value
Signed8(d) == IF d >= 128 THEN d - 256 ELSE d

\* The map m is in n as it was: every byte known in m is the same in n, and
\* the bytes that became known are at the indices X, those the fetches read
\* (a fetch from ROM reads the boot latch and the bank byte as well).
ReadOnly(m, n, X) ==
    /\ DOMAIN m \subseteq DOMAIN n
    /\ \A i \in DOMAIN m : n[i] = m[i]
    /\ (DOMAIN n \ DOMAIN m) \subseteq X

\* C27: JR d ($18) at PC = p with the displacement byte d leaves
\* PC = (p + 2 + signed(d)) mod 65536 and changes no other register and no
\* memory.
C27_JrTarget ==
    \A i \in 1..Len(executed) :
        LET e == executed[i]
            d == KnownByte(e.post, U16(e.pc + 1))
            F == {e.pc, U16(e.pc + 1)}
        IN  e.op = 24
            => /\ e.post.st = "ok"
               /\ d >= 0
               /\ e.post.regs[REG_PC] = (e.pc + 2 + Signed8(d) + 65536) % 65536
               /\ SameRegsBut(e, {})
               /\ e.post.IME = e.pre.IME
               /\ e.post.halted = e.pre.halted
               /\ ReadOnly(e.pre.mem, e.post.mem,
                           { a - MEM_BASE : a \in F } \cup {BANK_IDX, ADDR_BOOT - MEM_BASE})
               /\ ReadOnly(e.pre.cart, e.post.cart, 0..(e.pre.cartSize - 1))
               /\ e.post.bootRom = e.pre.bootRom

\* JR $FE at PC = $0200 was executed: PC is $0200 again
C27_JrToItself ==
    /\ phase = "irq"
    /\ opcode = 24
    /\ instrPC = 512
    /\ KnownByte(GB, 513) = 254
    /\ regs[REG_PC] = 512

-----------------------------------------------------------------------------
(* C28.                                                                    *)

\* The condition code cc (0 NZ, 1 Z, 2 NC, 3 C) on the flag byte f
CondHolds(cc, f) ==
    CASE cc = 0 -> And(f, 128) = 0
      [] cc = 1 -> And(f, 128) > 0
      [] cc = 2 -> And(f, 16) = 0
      [] cc = 3 -> And(f, 16) > 0

\* C28: JR cc,d ($20, $28, $30, $38) is taken exactly when the condition of
\* opcode bits 4-3 holds (NZ: F bit 7 clear, Z: F bit 7 set, NC: F bit 4
\* clear, C: F bit 4 set); when it does not hold PC advances by 2.
C28_JrCond ==
    \A i \in 1..Len(executed) :
        LET e == executed[i]
            d == KnownByte(e.post, U16(e.pc + 1))
        IN  (e.op \in {32, 40, 48, 56} /\ e.post.st = "ok" /\ d >= 0)
            => e.post.regs[REG_PC] =
                   IF CondHolds((e.op \div 8) % 4, Lo(e.pre.regs[REG_AF]))
                   THEN (e.pc + 2 + Signed8(d) + 65536) % 65536
                   ELSE U16(e.pc + 2)

\* JR C,$FE ($38) was executed with the C flag clear
C28_JrCarryClear ==
    /\ phase = "irq"
    /\ opcode = 56
    /\ And(Lo(Last.pre.regs[REG_AF]), 16) = 0
    /\ KnownByte(GB, U16(instrPC + 1)) = 254
    /\ Last.post.st = "ok"

-----------------------------------------------------------------------------
(* C29.                                                                    *)

\* C29: LD r,(HL) ($46, $4E, $56, $5E, $66, $6E, $7E) loads r with the byte
\* at HL, advances PC by 1 and changes no other register; LD (HL),r ($70-$75,
\* $77) leaves r in the byte at HL, HL in RAM.
C29_IndirectHL ==
    \A i \in 1..Len(executed) :
        LET e  == executed[i]
            hl == e.pre.regs[REG_HL]
            r  == (e.op \div 8) % 8
        IN  e.post.st = "ok"
            => /\ e.op \in {70, 78, 86, 94, 102, 110, 126}
                  => /\ e.post.regs[REG_PC] = U16(e.pc + 1)
                     /\ KnownByte(e.post, hl) >= 0
                     /\ Reg8(e.post.regs, r) = KnownByte(e.post, hl)
                     /\ \A q \in {0, 1, 2, 3, 4, 5, 7} \ {r} :
                            Reg8(e.post.regs, q) = Reg8(e.pre.regs, q)
                     /\ e.post.regs[REG_SP] = e.pre.regs[REG_SP]
                     /\ Lo(e.post.regs[REG_AF]) = Lo(e.pre.regs[REG_AF])
               /\ (e.op \in {112, 113, 114, 115, 116, 117, 119} /\ hl >= MEM_BASE /\ hl # ADDR_LY)
                  => /\ ByteAt(e.post.mem, hl) = Reg8(e.pre.regs, e.op % 8)
                     /\ e.post.regs[REG_PC] = U16(e.pc + 1)

\* LD A,(HL) ($7E) was executed with HL = $C000
C29_LoadAFromHL ==
    /\ phase = "irq"
    /\ opcode = 126
    /\ Last.pre.regs[REG_HL] = 49152
    /\ Last.post.st = "ok"

-----------------------------------------------------------------------------
(* C30.                                                                    *)

\* C30: RST t ($C7, $CF, ..., $FF) at PC = p leaves PC = 8 * ((opcode >> 3) & 7),
\* SP two lower and the word p + 1 on the stack, and fetches no byte after
\* the opcode.
C30_Rst ==
    \A i \in 1..Len(executed) :
        LET e  == executed[i]
            sp == U16(e.pre.regs[REG_SP] - 2 + 65536)
        IN  (e.op \in {199, 207, 215, 223, 231, 239, 247, 255} /\ e.post.st = "ok"
             /\ sp >= MEM_BASE /\ sp < 65535)
            => /\ e.post.regs[REG_PC] = 8 * ((e.op \div 8) % 8)
               /\ e.post.regs[REG_SP] = sp
               /\ ByteAt(e.post.mem, sp) = Lo(U16(e.pc + 1))
               /\ ByteAt(e.post.mem, sp + 1) = Hi(U16(e.pc + 1))

\* RST $00 ($C7) was executed at PC = $0150 with the stack in RAM
C30_Rst00 ==
    /\ phase = "irq"
    /\ opcode = 199
    /\ instrPC = 336
    /\ Last.pre.regs[REG_SP] = 53248
    /\ Last.post.st = "ok"

-----------------------------------------------------------------------------
(* C31.                                                                    *)

\* A after the published decimal adjustment of A = a under the flag byte f
DaaValue(a, f) ==
    LET n == And(f, 64) > 0
        h == And(f, 32) > 0
        c == And(f, 16) > 0
        lo == IF n THEN (IF h THEN 6 ELSE 0)
              ELSE (IF h \/ a % 16 > 9 THEN 6 ELSE 0)
        hi == IF n THEN (IF c THEN 96 ELSE 0)
              ELSE (IF c \/ a > 153 THEN 96 ELSE 0)
    IN  IF n THEN (a - lo - hi + 512) % 256 ELSE (a + lo + hi) % 256

\* C31: DAA ($27) leaves A adjusted as published (N = 0: +$06 when H or
\* (A & 15) > 9, +$60 and C set when C or A > $99; N = 1: -$06 when H, -$60
\* when C), Z = (A = 0), H = 0, N as before, and PC one higher.
C31_Daa ==
    \A i \in 1..Len(executed) :
        LET e == executed[i]
            a == Hi(e.pre.regs[REG_AF])
            f == Lo(e.pre.regs[REG_AF])
            g == Lo(e.post.regs[REG_AF])
        IN  (e.op = 39 /\ e.post.st = "ok")
            => /\ Hi(e.post.regs[REG_AF]) = DaaValue(a, f)
               /\ (And(g, 128) > 0) = (DaaValue(a, f) = 0)
               /\ And(g, 32) = 0
               /\ And(g, 64) = And(f, 64)
               /\ (And(f, 64) = 0 /\ (And(f, 16) > 0 \/ a > 153)) => And(g, 16) > 0
               /\ e.post.regs[REG_PC] = U16(e.pc + 1)

\* DAA ($27) was executed with A = $3C, F = $80
C31_DaaExecuted ==
    /\ phase = "irq"
    /\ opcode = 39
    /\ Last.pre.regs[REG_AF] = 15488
    /\ Last.post.st = "ok"

-----------------------------------------------------------------------------
(* C32.                                                                    *)

\* C32: when the boot ROM image cannot be loaded the emulator still starts:
\* StartGB does not return before the run loop, and the first instruction
\* executes from AF=$01B0, BC=$0013, DE=$00D8, HL=$014D, SP=$FFFE, PC=$0100,
\* IME=false.
C32_StartsWithoutBoot ==
    loaded = "noboot"
    => /\ phase # "exit"
       /\ executed # <<>>
          => LET g == executed[1].pre
             IN  /\ g.regs[REG_AF] = 432
                 /\ g.regs[REG_BC] = 19
                 /\ g.regs[REG_DE] = 216
                 /\ g.regs[REG_HL] = 333
                 /\ g.regs[REG_SP] = 65534
                 /\ g.regs[REG_PC] = 256
                 /\ ~g.IME

\* StartGB has returned because DMG_ROM.bin could not be loaded
C32_NoBootRom ==
    /\ loaded = "noboot"
    /\ phase = "exit"
    /\ executed = <<>>
    /\ frames = 0

-----------------------------------------------------------------------------
(* C33.                                                                    *)

\* The exit status of the process: 134 when an assert has aborted it
ExitStatus == IF st = "assert" THEN 134 ELSE exitCode

\* C33: the process exits with 0 after a normal run, 1 when CreateGB fails,
\* 2 when a ROM cannot be loaded and 3 when the cartridge needs an
\* unimplemented mapper; a failed ROM load never yields 0.
C33_ExitCodes ==
    ExitStatus # -1
    => /\ phase = "nogb" => ExitStatus = 1
       /\ loaded \in {"noboot", "nocart"} => ExitStatus = 2
       /\ (loaded = "ok" /\ KnownByte(GB, CART_CART_TYPE) = CART_TYPE_MBC1) => ExitStatus = 3
       /\ (loaded = "ok" /\ st = "ok" /\ phase = "exit") => ExitStatus = 0

\* main has returned after the cartridge image could not be loaded
C33_ExitAfterFailedLoad ==
    /\ loaded = "nocart"
    /\ phase = "exit"
    /\ exitCode = 0

-----------------------------------------------------------------------------
(* C34.                                                                    *)

\* The bytes of gb->mem known in m are in n as they were, but for those at
\* the addresses X
SameMemBut(m, n, X) ==
    /\ \A i \in DOMAIN m : (i + MEM_BASE) \notin X => (i \in DOMAIN n /\ n[i] = m[i])
    /\ \A i \in DOMAIN n \ DOMAIN m : (i + MEM_BASE) \in X

\* C34: Push16(v) with SP = s leaves SP = s-2, the high byte of v at s-1 and
\* the low byte of v at s-2, and writes no other byte of memory: the byte at
\* s is not written.
C34_PushLayout ==
    [][(/\ phase = "stack"
        /\ busLog' # busLog
        /\ LastBus'.kind = "push"
        /\ st' = "ok"
        /\ regs[REG_SP] - 2 >= MEM_BASE
        /\ {regs[REG_SP] - 1, regs[REG_SP] - 2} \cap {ADDR_LY} = {})
       => LET s == regs[REG_SP]
              v == LastBus'.val
          IN  /\ regs'[REG_SP] = s - 2
              /\ ByteAt(mem', s - 1) = Hi(v)
              /\ ByteAt(mem', s - 2) = Lo(v)
              /\ SameMemBut(mem, mem', {s - 1, s - 2})]_vars

\* Push16($1234) was called with SP = $D000
C34_Pushed ==
    /\ phase = "stack"
    /\ Len(busLog) = 1
    /\ LastBus.kind = "push"
    /\ LastBus.addr = 53248
    /\ LastBus.val = 4660
    /\ st = "ok"

-----------------------------------------------------------------------------
(* C39.                                                                    *)

\* C39: on a ROM_ONLY cartridge, with s-1 and s in $8000-$FFFF and neither
\* of them $FF44, Pop16 called right after Push16(v) at SP = s returns v and
\* leaves SP = s.
C39_PushPop ==
    [][(/\ phase = "stack"
        /\ busLog # <<>>
        /\ LastBus.kind = "push"
        /\ busLog' # busLog
        /\ LastBus'.kind = "pop"
        /\ KnownByte(GB, CART_CART_TYPE) = CART_TYPE_ROM_ONLY
        /\ LastBus.addr - 1 >= MEM_BASE
        /\ {LastBus.addr - 1, LastBus.addr} \cap {ADDR_LY} = {})
       => /\ st' = "ok"
          /\ LastBus'.val = LastBus.val
          /\ regs'[REG_SP] = LastBus.addr]_vars

\* Push16($1234) at SP = $D000 and then Pop16 were called: the value read
\* back is $1234
C39_RoundTrip ==
    /\ phase = "stack"
    /\ Len(busLog) = 2
    /\ busLog[1].kind = "push"
    /\ busLog[1].addr = 53248
    /\ busLog[1].val = 4660
    /\ busLog[2].kind = "pop"
    /\ busLog[2].val = 4660
    /\ regs[REG_SP] = 53248

-----------------------------------------------------------------------------
(* C35.                                                                    *)

\* C35: from a machine with IME false, as StartGB leaves it, IME is false
\* after every instruction, whatever the opcode byte; CheckInterrupt returns
\* false and CallInterrupt is not called, even with an enabled interrupt
\* pending.
C35_ImeNeverSet ==
    /\ ~IME
    /\ vector = -1
    /\ \A i \in 1..Len(executed) : ~executed[i].post.IME

\* EI ($FB) was executed with VBlank enabled and pending, and the interrupt
\* chain after it has run
C35_EiExecuted ==
    /\ phase = "tick"
    /\ opcode = 251
    /\ And(And(ByteAt(mem, ADDR_IE), ByteAt(mem, ADDR_IF)), 1) = 1
    /\ regs[REG_PC] = U16(instrPC + 1)
    /\ st = "ok"

-----------------------------------------------------------------------------
(* C36.                                                                    *)

\* C36: while halted is set, the steps of a loop iteration in which no
\* interrupt is dispatched execute no instruction and leave the registers,
\* IME, halted and memory as they were, but for LY, which the LY block
\* advances, and IF, in which it sets bit 0 when LY becomes 144; halted is
\* cleared only in a step that calls CallInterrupt.
C36_HaltedFrame ==
    [][halted
       => /\ phase \in {"poll", "exec"}
             => /\ UNCHANGED gbVars
                /\ executed' = executed
          /\ (phase = "irq" /\ vector' = -1)
             => /\ UNCHANGED <<regs, IME, halted, cart, bootRom>>
                /\ SameMemBut(mem, mem', {})
          /\ (phase = "tick" /\ st' = "ok")
             => /\ UNCHANGED <<regs, IME, halted, cart, bootRom>>
                /\ SameMemBut(mem, mem', {ADDR_LY, ADDR_IF})
                /\ ByteAt(mem', ADDR_LY) =
                       IF ByteAt(mem, ADDR_LY) >= 153 THEN 0 ELSE ByteAt(mem, ADDR_LY) + 1
                /\ ByteAt(mem', ADDR_IF) =
                       IF ByteAt(mem', ADDR_LY) = 144
                       THEN Or(ByteAt(mem, ADDR_IF), 1) ELSE ByteAt(mem, ADDR_IF)
          /\ ~halted' => (phase = "irq" /\ vector' # -1)]_vars

\* A whole iteration has passed in the halted state with no dispatch: HALT is
\* the only instruction executed, LY has become 144 and IF bit 0 is set
C36_HaltedIteration ==
    /\ halted
    /\ phase = "poll"
    /\ count = 3
    /\ Len(executed) = 1
    /\ executed[1].op = 118
    /\ vector = -1
    /\ ByteAt(mem, ADDR_LY) = 144
    /\ And(ByteAt(mem, ADDR_IF), 1) = 1

-----------------------------------------------------------------------------
(* C37.                                                                    *)

\* The outcomes of DoInstruction on the machine g with the prefix $CB at
\* PC = $0150 and the byte b after it
PrefixedOutcomes(g, b) ==
    DoInstruction([g EXCEPT !.cart = (336 :> 203) @@ (337 :> b) @@ @], {})

\* C37: on a ROM_ONLY cartridge no instruction ends in a failed assertion
\* (Get8Reg, Set8Reg, SetFlag, CheckFlag), whatever the opcode byte, the byte
\* after the $CB prefix and the operand bytes.
C37_NoAssert ==
    /\ st # "assert"
    /\ (phase = "exec" /\ ~halted /\ regs[REG_PC] = 336 /\ 336 \notin DOMAIN cart)
       => \A b \in Byte : \A r \in PrefixedOutcomes(GB, b) : r[2].st # "assert"

\* INC (HL) ($34), whose register field is 6, was executed with HL in RAM
C37_IncAtHL ==
    /\ phase = "irq"
    /\ opcode = 52
    /\ Last.pre.regs[REG_HL] = 49152
    /\ st = "ok"

-----------------------------------------------------------------------------
(* C38.                                                                    *)

\* C38: DoInstruction returns false, which ends the run, only for an opcode
\* byte $CB; every other byte is taken by some branch of the chain before
\* the 'Unknown instruction' branch.
C38_FalseOnlyPrefixed ==
    [][(phase = "exec" /\ ~halted)
       => /\ (running /\ ~running') => opcode' = 203
          /\ opcode' # 203 => Decode(opcode') # "invalid"]_vars

\* The byte $D3, unassigned on the LR35902, was executed and the run goes on
C38_UnassignedRuns ==
    /\ phase = "irq"
    /\ opcode = 211
    /\ running
    /\ st = "ok"

====
